---------------------------- MODULE Spec2Model ----------------------------
(***************************************************************************)
(* Traffic simulation engine: road graph (graph.py), breadth-first         *)
(* pathfinding and per-vehicle kinematics (vehicle.py), signal control     *)
(* (graph.py), spawners and the fleet's tick (fleet.py), the monitor's     *)
(* clock (traffic_monitor.py).                                             *)
(*                                                                         *)
(* Numbers.  The program computes with floats; the model computes with     *)
(* exact integers:                                                         *)
(*   - progress_on_road is counted in units of 1/PU of a road, PU = 3600,  *)
(*     so 1.0 is PU, the hold point 0.95 is 3420 and the margin 0.03 is    *)
(*     108 units;                                                          *)
(*   - speed is in km/h, delta_time and signal durations in whole seconds, *)
(*     road lengths in metres.  A tick of dt seconds at speed s on a road  *)
(*     of length L adds (s*1000/3600*dt)/L, that is s*1000*dt*PU/(3600*L)  *)
(*     units; the road lengths used divide s*1000*dt, so the quotient is   *)
(*     exact.                                                              *)
(* Python's None is the integer -1 for identifiers (destination,           *)
(* current_road) and the empty sequence for optional objects and optional  *)
(* numbers (<<>> is None, <<x>> is the value x).                           *)
(***************************************************************************)
EXTENDS Integers, Sequences, FiniteSets, TLC

VARIABLES
    network,    \* RoadNetwork: intersections, roads, adjacency lists, counters
    signals,    \* per intersection: traffic_light and traffic_light_controller
    vehicles,   \* the shared list of vehicles; one VehicleController per entry
    last,       \* what the last operation was given, saw and returned
    fleet,      \* VehicleFleet: controllers, spawners, id counter, monitor
    tick        \* what the last call on the fleet or a spawner did

vars == <<network, signals, vehicles, last, fleet, tick>>

(***************************************************************************)
(* Bounds of the model and scales.  At 180 km/h one second covers half of  *)
(* a 100 m road and four seconds two of them; at 185 km/h two seconds      *)
(* leave a vehicle 0.0278 beyond the end of a 100 m road.                  *)
(***************************************************************************)
MaxVehicles == 2

\* progress_on_road 1.0
PU == 36 * 100

None == 0 - 1

\* Vehicle.speed, km/h
Speeds == {180, 185}

\* delta_time, seconds
DeltaTimes == {0, 1, 4}

Max(a, b) == IF a >= b THEN a ELSE b

(***************************************************************************)
(* graph.py: RoadNetwork.  The dictionaries keyed by id are sequences: the *)
(* entry of id k is at position k + 1.  An intersection's name and x, y    *)
(* are read by the display only and are left out; a road refers to its two *)
(* intersections by id.                                                    *)
(***************************************************************************)
EmptyNetwork ==
    [intersections        |-> <<>>,
     roads                |-> <<>>,
     adj_list             |-> <<>>,
     intersection_counter |-> 0,
     road_counter         |-> 0]

HasIntersection(net, id) ==
    \E k \in 1..Len(net.intersections) : net.intersections[k].id = id

add_intersection(net) ==
    [net EXCEPT
        !.intersections = Append(@, [id |-> net.intersection_counter,
                                     is_destination |-> TRUE]),
        !.adj_list = Append(@, <<>>),
        !.intersection_counter = @ + 1]

\* add_road raises ValueError.
add_road_raises(net, from_id, to_id) ==
    ~HasIntersection(net, from_id) \/ ~HasIntersection(net, to_id)

\* Only from_id is looked up before the road is stored.
add_road_unchecked_target(net, from_id, to_id, length, speed_limit) ==
    IF ~HasIntersection(net, from_id)
    THEN net
    ELSE [net EXCEPT
            !.roads = Append(@, [id |-> net.road_counter,
                                 from_intersection |-> from_id,
                                 to_intersection |-> to_id,
                                 length |-> length,
                                 speed_limit |-> speed_limit,
                                 lanes |-> 1]),
            !.adj_list[from_id + 1] = Append(@, net.road_counter),
            !.road_counter = @ + 1]

\* The road is listed under its to-intersection.
add_road_listed_at_target(net, from_id, to_id, length, speed_limit) ==
    IF ~HasIntersection(net, from_id) \/ ~HasIntersection(net, to_id)
    THEN net
    ELSE [net EXCEPT
            !.roads = Append(@, [id |-> net.road_counter,
                                 from_intersection |-> from_id,
                                 to_intersection |-> to_id,
                                 length |-> length,
                                 speed_limit |-> speed_limit,
                                 lanes |-> 1]),
            !.adj_list[to_id + 1] = Append(@, net.road_counter),
            !.road_counter = @ + 1]

\* A rejected call uses up a road id.
add_road_burns_id(net, from_id, to_id, length, speed_limit) ==
    IF ~HasIntersection(net, from_id) \/ ~HasIntersection(net, to_id)
    THEN [net EXCEPT !.road_counter = @ + 1]
    ELSE [net EXCEPT
            !.roads = Append(@, [id |-> net.road_counter,
                                 from_intersection |-> from_id,
                                 to_intersection |-> to_id,
                                 length |-> length,
                                 speed_limit |-> speed_limit,
                                 lanes |-> 1]),
            !.adj_list[from_id + 1] = Append(@, net.road_counter),
            !.road_counter = @ + 1]

\* A rejected call (ValueError) leaves the network as it was.
add_road(net, from_id, to_id, length, speed_limit) ==
    IF ~HasIntersection(net, from_id) \/ ~HasIntersection(net, to_id)
    THEN net
    ELSE [net EXCEPT
            !.roads = Append(@, [id |-> net.road_counter,
                                 from_intersection |-> from_id,
                                 to_intersection |-> to_id,
                                 length |-> length,
                                 speed_limit |-> speed_limit,
                                 lanes |-> 1]),
            !.adj_list[from_id + 1] = Append(@, net.road_counter),
            !.road_counter = @ + 1]

get_road(net, road_id) == net.roads[road_id + 1]

\* The outgoing roads, newest first.
get_outgoing_roads_newest_first(net, intersection_id) ==
    [p \in 1..Len(net.adj_list[intersection_id + 1]) |->
        net.adj_list[intersection_id + 1][Len(net.adj_list[intersection_id + 1]) + 1 - p]]

get_outgoing_roads(net, intersection_id) == net.adj_list[intersection_id + 1]

RECURSIVE FirstRoadTo(_, _, _)
FirstRoadTo(net, roads, to_id) ==
    IF roads = <<>> THEN None
    ELSE IF get_road(net, Head(roads)).to_intersection = to_id THEN Head(roads)
    ELSE FirstRoadTo(net, Tail(roads), to_id)

get_road_between(net, from_id, to_id) ==
    FirstRoadTo(net, get_outgoing_roads(net, from_id), to_id)

IntersectionIds(net) == {net.intersections[k].id : k \in 1..Len(net.intersections)}

(***************************************************************************)
(* graph.py: TrafficLightController and the deprecated TrafficLight        *)
(***************************************************************************)
is_green_for_direction(ctrl, from_intersection_id) ==
    from_intersection_id \in ctrl.phases[ctrl.current_phase_index + 1].allowed_directions

is_red_for_direction(ctrl, from_intersection_id) ==
    ~is_green_for_direction(ctrl, from_intersection_id)

\* The adjusted duration is stored without a floor.
adjust_phase_duration_unclamped(ctrl, phase_index, delta) ==
    IF 0 <= phase_index /\ phase_index < Len(ctrl.phases)
    THEN [ctrl EXCEPT !.phases[phase_index + 1].duration = @ + delta]
    ELSE ctrl

adjust_phase_duration(ctrl, phase_index, delta) ==
    IF 0 <= phase_index /\ phase_index < Len(ctrl.phases)
    THEN [ctrl EXCEPT !.phases[phase_index + 1].duration = Max(1, @ + delta)]
    ELSE ctrl

set_phase_duration(ctrl, phase_index, duration) ==
    IF 0 <= phase_index /\ phase_index < Len(ctrl.phases)
    THEN [ctrl EXCEPT !.phases[phase_index + 1].duration = Max(1, duration)]
    ELSE ctrl

\* The controller moves on by as many phases as delta_time covers.
controller_update_catch_up(ctrl, delta_time) ==
    LET t == ctrl.time_in_phase + delta_time
        current_phase == ctrl.phases[ctrl.current_phase_index + 1]
        next_index == (ctrl.current_phase_index + 1) % Len(ctrl.phases)
    IN  IF t >= current_phase.duration
        THEN IF t - current_phase.duration >= ctrl.phases[next_index + 1].duration
             THEN [ctrl EXCEPT
                     !.current_phase_index = (next_index + 1) % Len(ctrl.phases),
                     !.time_in_phase = 0]
             ELSE [ctrl EXCEPT
                     !.current_phase_index = next_index,
                     !.time_in_phase = 0]
        ELSE [ctrl EXCEPT !.time_in_phase = t]

\* The time beyond the duration is carried into the next phase.
controller_update_carries_overshoot(ctrl, delta_time) ==
    LET t == ctrl.time_in_phase + delta_time
        current_phase == ctrl.phases[ctrl.current_phase_index + 1]
    IN  IF t >= current_phase.duration
        THEN [ctrl EXCEPT
                !.current_phase_index = (@ + 1) % Len(ctrl.phases),
                !.time_in_phase = t - current_phase.duration]
        ELSE [ctrl EXCEPT !.time_in_phase = t]

controller_update(ctrl, delta_time) ==
    LET t == ctrl.time_in_phase + delta_time
        current_phase == ctrl.phases[ctrl.current_phase_index + 1]
    IN  IF t >= current_phase.duration
        THEN [ctrl EXCEPT
                !.current_phase_index = (@ + 1) % Len(ctrl.phases),
                !.time_in_phase = 0]
        ELSE [ctrl EXCEPT !.time_in_phase = t]

light_is_red(light) == light.state = "red"

light_is_green(light) == light.state = "green"

light_is_red_for_direction(light, from_intersection_id) ==
    IF light.allowed_directions = <<>>
    THEN light_is_red(light)
    ELSE IF light_is_green(light)
            /\ from_intersection_id \in light.allowed_directions[1]
         THEN FALSE
         ELSE TRUE

light_update(light, delta_time) ==
    LET t == light.time_in_state + delta_time
    IN  IF light.state = "green" /\ t >= light.green_duration
        THEN [light EXCEPT !.state = "red", !.time_in_state = 0]
        ELSE IF light.state = "red" /\ t >= light.red_duration
        THEN [light EXCEPT !.state = "green", !.time_in_state = 0]
        ELSE [light EXCEPT !.time_in_state = t]

(***************************************************************************)
(* vehicle.py: PathFinder                                                  *)
(***************************************************************************)
\* The path list is shared by the neighbours of a node: each neighbour is
\* added to the list its siblings were added to.
RECURSIVE ScanNeighbors_shared_path(_, _, _, _, _, _)
ScanNeighbors_shared_path(net, end, roads, path, queue, visited) ==
    IF roads = <<>>
    THEN [found |-> FALSE, path |-> <<>>, queue |-> queue, visited |-> visited]
    ELSE LET neighbor == get_road(net, Head(roads)).to_intersection
             new_path == Append(path, neighbor)
         IN  IF neighbor \in visited
             THEN ScanNeighbors_shared_path(net, end, Tail(roads), path, queue, visited)
             ELSE IF neighbor = end
             THEN [found |-> TRUE, path |-> new_path,
                   queue |-> queue, visited |-> visited]
             ELSE ScanNeighbors_shared_path(net, end, Tail(roads), new_path,
                                            Append(queue, <<neighbor, new_path>>),
                                            visited \cup {neighbor})

RECURSIVE ScanNeighbors(_, _, _, _, _, _)
ScanNeighbors(net, end, roads, path, queue, visited) ==
    IF roads = <<>>
    THEN [found |-> FALSE, path |-> <<>>, queue |-> queue, visited |-> visited]
    ELSE LET neighbor == get_road(net, Head(roads)).to_intersection
             new_path == Append(path, neighbor)
         IN  IF neighbor \in visited
             THEN ScanNeighbors(net, end, Tail(roads), path, queue, visited)
             ELSE IF neighbor = end
             THEN [found |-> TRUE, path |-> new_path,
                   queue |-> queue, visited |-> visited]
             ELSE ScanNeighbors(net, end, Tail(roads), path,
                                Append(queue, <<neighbor, new_path>>),
                                visited \cup {neighbor})

RECURSIVE SearchQueue(_, _, _, _)
SearchQueue(net, end, queue, visited) ==
    IF queue = <<>> THEN <<>>
    ELSE LET current == Head(queue)[1]
             path == Head(queue)[2]
             r == ScanNeighbors(net, end, get_outgoing_roads(net, current),
                                path, Tail(queue), visited)
         IN  IF r.found THEN r.path
             ELSE SearchQueue(net, end, r.queue, r.visited)

\* The search runs also when start and end are the same intersection.
find_shortest_path_always_searches(net, start, end) ==
    SearchQueue(net, end, << <<start, <<start>>>> >>, {start})

find_shortest_path(net, start, end) ==
    IF start = end THEN <<start>>
    ELSE SearchQueue(net, end, << <<start, <<start>>>> >>, {start})

(***************************************************************************)
(* vehicle.py: Vehicle and VehicleController                               *)
(***************************************************************************)
Vehicle(id, current_intersection, speed) ==
    [id                   |-> id,
     current_intersection |-> current_intersection,
     speed                |-> speed,
     state                |-> "idle",
     destination          |-> None,
     path                 |-> <<>>,
     current_path_index   |-> 0,
     progress_on_road     |-> 0,
     current_road         |-> None]

has_reached_destination(v) ==
    v.state = "arrived" /\ v.current_intersection = v.destination

\* The destination is stored before the path is searched.
set_destination_eager(net, v, destination) ==
    LET path == find_shortest_path(net, v.current_intersection, destination)
    IN  IF destination = v.current_intersection
        THEN [vehicle |-> [v EXCEPT !.state = "arrived",
                                    !.destination = destination],
              result  |-> TRUE]
        ELSE IF path = <<>>
        THEN [vehicle |-> [v EXCEPT !.destination = destination], result |-> FALSE]
        ELSE [vehicle |->
                [v EXCEPT
                   !.destination = destination,
                   !.path = path,
                   !.current_path_index = 0,
                   !.state = "driving",
                   !.progress_on_road = 0,
                   !.current_road =
                       get_road_between(net, v.current_intersection, path[2])],
              result |-> TRUE]

\* The progress on the road is not reset.
set_destination_keeps_progress(net, v, destination) ==
    LET path == find_shortest_path(net, v.current_intersection, destination)
    IN  IF destination = v.current_intersection
        THEN [vehicle |-> [v EXCEPT !.state = "arrived",
                                    !.destination = destination],
              result  |-> TRUE]
        ELSE IF path = <<>>
        THEN [vehicle |-> v, result |-> FALSE]
        ELSE [vehicle |->
                [v EXCEPT
                   !.destination = destination,
                   !.path = path,
                   !.current_path_index = 0,
                   !.state = "driving",
                   !.current_road =
                       get_road_between(net, v.current_intersection, path[2])],
              result |-> TRUE]

\* Returns the vehicle after the call and the boolean the call returns.
set_destination(net, v, destination) ==
    IF destination = v.current_intersection
    THEN [vehicle |-> [v EXCEPT !.state = "arrived",
                                !.destination = destination],
          result  |-> TRUE]
    ELSE LET path == find_shortest_path(net, v.current_intersection, destination)
         IN  IF path = <<>>
             THEN [vehicle |-> v, result |-> FALSE]
             ELSE [vehicle |->
                     [v EXCEPT
                        !.destination = destination,
                        !.path = path,
                        !.current_path_index = 0,
                        !.state = "driving",
                        !.progress_on_road = 0,
                        !.current_road =
                            IF Len(path) > 1
                            THEN get_road_between(net, v.current_intersection, path[2])
                            ELSE @],
                   result |-> TRUE]

min_safe_distance == (3 * PU) \div 100

max_red_light_progress == (95 * PU) \div 100

Min(a, b) == IF a <= b THEN a ELSE b

\* Progress of the nearest vehicle ahead on the same road: <<p>>, or <<>> for None.
\* progress_on_road is a float and a whole number of units here: between two
\* vehicles at the same number of units, level_ahead is what the comparison
\* `other.progress_on_road > self.vehicle.progress_on_road` of the floats
\* gives (FALSE for equal floats, TRUE when the other's is the greater by
\* less than a unit, as after 0.025 - 0.03 against -0.005).
check_vehicle_ahead(v, other_vehicles, level_ahead) ==
    IF v.current_road = None THEN <<>>
    ELSE LET ahead == {k \in 1..Len(other_vehicles) :
                         /\ other_vehicles[k].id # v.id
                         /\ other_vehicles[k].current_road # None
                         /\ other_vehicles[k].current_road = v.current_road
                         /\ \/ other_vehicles[k].progress_on_road > v.progress_on_road
                            \/ /\ level_ahead
                               /\ other_vehicles[k].progress_on_road
                                     = v.progress_on_road}
         IN  IF ahead = {} THEN <<>>
             ELSE LET m == CHOOSE k \in ahead :
                             \A j \in ahead : other_vehicles[k].progress_on_road
                                              <= other_vehicles[j].progress_on_road
                  IN  <<other_vehicles[m].progress_on_road>>

\* The arrival branch resets the vehicle to Idle.
move_to_next_intersection_idle(net, v) ==
    LET index == v.current_path_index + 1
        here == v.path[index + 1]
    IN  IF index >= Len(v.path) - 1
        THEN [v EXCEPT !.current_path_index = index,
                       !.current_intersection = here,
                       !.state = "idle",
                       !.progress_on_road = 0,
                       !.current_road = None]
        ELSE [v EXCEPT !.current_path_index = index,
                       !.current_intersection = here,
                       !.progress_on_road = v.progress_on_road - PU,
                       !.current_road = get_road_between(net, here, v.path[index + 2])]

\* The vehicle moves to the next node of its route and keeps its old road.
move_to_next_intersection_keeps_road(net, v) ==
    LET index == v.current_path_index + 1
        here == v.path[index + 1]
    IN  IF index >= Len(v.path) - 1
        THEN [v EXCEPT !.current_path_index = index,
                       !.current_intersection = here,
                       !.state = "arrived",
                       !.progress_on_road = 0,
                       !.current_road = None]
        ELSE [v EXCEPT !.current_path_index = index,
                       !.current_intersection = here,
                       !.progress_on_road = v.progress_on_road - PU]

move_to_next_intersection(net, v) ==
    LET index == v.current_path_index + 1
        here == v.path[index + 1]
        excess_progress == v.progress_on_road - PU
    IN  IF index >= Len(v.path) - 1
        THEN [v EXCEPT !.current_path_index = index,
                       !.current_intersection = here,
                       !.state = "arrived",
                       !.progress_on_road = 0,
                       !.current_road = None]
        ELSE [v EXCEPT !.current_path_index = index,
                       !.current_intersection = here,
                       !.progress_on_road = excess_progress,
                       !.current_road = get_road_between(net, here, v.path[index + 2])]

\* The loop `while progress_on_road >= 1.0`; entered lists each node moved into
\* together with the node it was approached from.
RECURSIVE FoldOver(_, _, _)
FoldOver(net, v, entered) ==
    IF v.progress_on_road >= PU
    THEN LET m == move_to_next_intersection(net, v)
             e == Append(entered, [from |-> v.current_intersection,
                                   to   |-> m.current_intersection])
         IN  IF m.state = "arrived"
             THEN [vehicle |-> m, entered |-> e]
             ELSE FoldOver(net, m, e)
    ELSE [vehicle |-> v, entered |-> entered]

has_red_light(sig, next_intersection, current_intersection) ==
    LET s == sig[next_intersection + 1]
    IN  IF s.traffic_light_controller # <<>>
        THEN is_red_for_direction(s.traffic_light_controller[1], current_intersection)
        ELSE IF s.traffic_light # <<>>
        THEN light_is_red_for_direction(s.traffic_light[1], current_intersection)
        ELSE FALSE

\* The conversion done in whole numbers: km/h \div 3600 first.
distance_traveled_truncated(v, delta_time) == (v.speed \div 3600) * 1000 * delta_time

\* speed_m_s * delta_time, counted in 1/3600 of a metre.
distance_traveled(v, delta_time) == v.speed * 1000 * delta_time

\* distance_traveled / road_length, in progress units.
distance_progress(v, delta_time, road_length) ==
    (distance_traveled(v, delta_time) * (PU \div 3600)) \div road_length

\* max in place of min: the vehicle is pulled up to its leader.
car_following_clamp_max(proposed_progress, vehicle_ahead_progress) ==
    IF vehicle_ahead_progress # <<>>
    THEN Max(proposed_progress, vehicle_ahead_progress[1] - min_safe_distance)
    ELSE proposed_progress

car_following_clamp(proposed_progress, vehicle_ahead_progress) ==
    IF vehicle_ahead_progress # <<>>
    THEN Min(proposed_progress, vehicle_ahead_progress[1] - min_safe_distance)
    ELSE proposed_progress

red_light_clamp(proposed_progress, red) ==
    IF red THEN Min(proposed_progress, max_red_light_progress)
    ELSE proposed_progress

\* VehicleController.update: the vehicle after the call, and what the call computed.
update(net, sig, v, other_vehicles, delta_time, level_ahead) ==
    IF v.state # "driving" \/ v.current_road = None
    THEN [vehicle |-> v, acted |-> FALSE, red |-> FALSE, ahead |-> <<>>,
          tentative |-> v.progress_on_road, committed |-> v.progress_on_road,
          entered |-> <<>>]
    ELSE LET next_intersection == v.path[v.current_path_index + 2]
             red == has_red_light(sig, next_intersection, v.current_intersection)
             road_length == get_road(net, v.current_road).length
             vehicle_ahead_progress == check_vehicle_ahead(v, other_vehicles, level_ahead)
             tentative == v.progress_on_road
                          + distance_progress(v, delta_time, road_length)
             committed == red_light_clamp(
                              car_following_clamp(tentative, vehicle_ahead_progress),
                              red)
             f == FoldOver(net, [v EXCEPT !.progress_on_road = committed], <<>>)
         IN  [vehicle |-> f.vehicle, acted |-> TRUE, red |-> red,
              ahead |-> vehicle_ahead_progress,
              tentative |-> tentative, committed |-> committed,
              entered |-> f.entered]

(***************************************************************************)
(* traffic_monitor.py: TrafficMonitor.  events lists, in the order of      *)
(* their creation, the queues of the nested dictionaries: one entry per    *)
(* intersection and DirectionKey (from_id, to_id), with the time stamps of *)
(* its passes, oldest first.  An entry stays when its queue is emptied.    *)
(***************************************************************************)
TrafficMonitor(window_seconds) ==
    [window_seconds |-> Max(1, window_seconds), time |-> 0, events |-> <<>>]

InWindow(timestamp, cutoff) == timestamp >= cutoff

\* while dq and dq[0] < cutoff: dq.popleft()
RECURSIVE prune(_, _)
prune(dq, cutoff) ==
    IF dq # <<>> /\ ~InWindow(Head(dq), cutoff) THEN prune(Tail(dq), cutoff) ELSE dq

\* The clock moves on and no queue is pruned.
monitor_update_keeps_all(m, delta_time) ==
    IF delta_time <= 0 THEN m ELSE [m EXCEPT !.time = @ + delta_time]

monitor_update(m, delta_time) ==
    IF delta_time <= 0 THEN m
    ELSE [m EXCEPT
            !.time = @ + delta_time,
            !.events = [k \in 1..Len(m.events) |->
                          [m.events[k] EXCEPT
                              !.dq = prune(@, m.time + delta_time - m.window_seconds)]]]

HasQueue(m, intersection_id, from_id, to_id) ==
    \E k \in 1..Len(m.events) :
        /\ m.events[k].intersection_id = intersection_id
        /\ m.events[k].from_id = from_id
        /\ m.events[k].to_id = to_id

\* The pass is added to every queue of the intersection.
record_pass_all_directions(m, intersection_id, from_id, to_id) ==
    IF HasQueue(m, intersection_id, from_id, to_id)
    THEN [m EXCEPT
            !.events = [k \in 1..Len(m.events) |->
                          IF m.events[k].intersection_id = intersection_id
                          THEN [m.events[k] EXCEPT !.dq = Append(@, m.time)]
                          ELSE m.events[k]]]
    ELSE [m EXCEPT
            !.events = Append(@, [intersection_id |-> intersection_id,
                                  from_id |-> from_id,
                                  to_id   |-> to_id,
                                  dq      |-> <<m.time>>])]

record_pass(m, intersection_id, from_id, to_id) ==
    IF HasQueue(m, intersection_id, from_id, to_id)
    THEN [m EXCEPT
            !.events = [k \in 1..Len(m.events) |->
                          IF /\ m.events[k].intersection_id = intersection_id
                             /\ m.events[k].from_id = from_id
                             /\ m.events[k].to_id = to_id
                          THEN [m.events[k] EXCEPT !.dq = Append(@, m.time)]
                          ELSE m.events[k]]]
    ELSE [m EXCEPT
            !.events = Append(@, [intersection_id |-> intersection_id,
                                  from_id |-> from_id,
                                  to_id   |-> to_id,
                                  dq      |-> <<m.time>>])]

\* The dictionary (from_id, to_id) -> len(dq), as the set of its items.
get_rates_for_intersection(m, intersection_id) ==
    {[from_id |-> m.events[k].from_id,
      to_id   |-> m.events[k].to_id,
      rate    |-> Len(m.events[k].dq)] :
        k \in {j \in 1..Len(m.events) : m.events[j].intersection_id = intersection_id}}

RECURSIVE SumQueues(_, _)
SumQueues(events, intersection_id) ==
    IF events = <<>> THEN 0
    ELSE (IF Head(events).intersection_id = intersection_id
          THEN Len(Head(events).dq) ELSE 0)
         + SumQueues(Tail(events), intersection_id)

get_total_rate_for_intersection(m, intersection_id) ==
    SumQueues(m.events, intersection_id)

clear(m) == [m EXCEPT !.events = <<>>, !.time = 0]

(***************************************************************************)
(* fleet.py: VehicleSpawner.  Times are whole seconds, spawn_rate is in    *)
(* tenths of a vehicle per second.  `draw` is the value expovariate        *)
(* returns, `speed` the value uniform returns, `r` the index choice picks. *)
(***************************************************************************)
inf == 0 - 2

next_interval(spawn_rate, draw) == IF spawn_rate <= 0 THEN inf ELSE draw

VehicleSpawner(spawn_intersection, spawn_rate, speed_min, speed_max, draw) ==
    [spawn_intersection    |-> spawn_intersection,
     spawn_rate            |-> spawn_rate,
     speed_min             |-> speed_min,
     speed_max             |-> speed_max,
     time_since_last_spawn |-> 0,
     next_spawn_interval   |-> next_interval(spawn_rate, draw),
     vehicle_id_counter    |-> 0]

\* t >= interval, where the interval may be float("inf").
Covers(t, interval) == interval # inf /\ t >= interval

IsDestination(x) == x.is_destination

\* random.choice(available) if available else None
choice(available, r) ==
    IF available = <<>> THEN None
    ELSE available[(r % Len(available)) + 1].id

spawner_get_random_destination(net, sp, r) ==
    IF Len(net.intersections) <= 1 THEN None
    ELSE choice(SelectSeq(net.intersections,
                          LAMBDA x : x.id # sp.spawn_intersection /\ IsDestination(x)),
                r)

\* The spawner resets its timer to zero on a spawn.
spawner_update_reset(sp, delta_time, draw, speed) ==
    LET t == sp.time_since_last_spawn + delta_time
    IN  IF Covers(t, sp.next_spawn_interval)
        THEN [spawner |-> [sp EXCEPT
                             !.time_since_last_spawn = 0,
                             !.next_spawn_interval = next_interval(sp.spawn_rate, draw)],
              vehicle |-> << Vehicle(None, sp.spawn_intersection, speed) >>,
              interval |-> sp.next_spawn_interval]
        ELSE [spawner |-> [sp EXCEPT !.time_since_last_spawn = t],
              vehicle |-> <<>>, interval |-> 0]

\* VehicleSpawner.update: the spawner after the call, the vehicle returned
\* (<<>> for None) and the interval the spawn consumed.
spawner_update(sp, delta_time, draw, speed) ==
    LET t == sp.time_since_last_spawn + delta_time
    IN  IF Covers(t, sp.next_spawn_interval)
        THEN [spawner |-> [sp EXCEPT
                             !.time_since_last_spawn = t - sp.next_spawn_interval,
                             !.next_spawn_interval = next_interval(sp.spawn_rate, draw)],
              vehicle |-> << Vehicle(None, sp.spawn_intersection, speed) >>,
              interval |-> sp.next_spawn_interval]
        ELSE [spawner |-> [sp EXCEPT !.time_since_last_spawn = t],
              vehicle |-> <<>>, interval |-> 0]

(***************************************************************************)
(* fleet.py: VehicleFleet.  fleet.vehicles is the variable `vehicles`; the *)
(* rest of the fleet is one record.  A controller holds the id of its      *)
(* vehicle, and other_vehicles is "own" for the empty list its constructor *)
(* makes or "fleet" for the reference to fleet.vehicles.                   *)
(***************************************************************************)
VehicleFleet ==
    [controllers |-> <<>>, spawners |-> <<>>, vehicle_id_counter |-> 0,
     monitor |-> <<>>]

add_spawner(f, spawn_intersection, spawn_rate, speed_min, speed_max, draw) ==
    [f EXCEPT !.spawners =
        Append(@, VehicleSpawner(spawn_intersection, spawn_rate,
                                 speed_min, speed_max, draw))]

set_monitor(f, monitor) == [f EXCEPT !.monitor = << monitor >>]

\* VehicleController.__init__(self, vehicle, network) called with the
\* positional arguments args: any other number of them is a TypeError (<<>>).
VehicleController(args) ==
    IF Len(args) = 2
    THEN << [vehicle |-> args[1], other_vehicles |-> "own"] >>
    ELSE <<>>

\* Any other intersection, whatever its is_destination.
fleet_get_random_destination_any(net, exclude_intersection, r) ==
    choice(SelectSeq(net.intersections, LAMBDA x : x.id # exclude_intersection), r)

fleet_get_random_destination(net, exclude_intersection, r) ==
    choice(SelectSeq(net.intersections,
                     LAMBDA x : x.id # exclude_intersection /\ IsDestination(x)),
           r)

\* The id counter is left as it was.
add_vehicle_same_id(net, f, vs, vehicle, r) ==
    [fleet |-> f,
     vehicles |-> Append(vs, [vehicle EXCEPT !.id = f.vehicle_id_counter]),
     raised |-> TRUE]

\* VehicleFleet.add_vehicle: the fleet and its vehicle list after the call,
\* and whether the call raised.
add_vehicle(net, f, vs, vehicle, r) ==
    LET v == [vehicle EXCEPT !.id = f.vehicle_id_counter]
        f1 == [f EXCEPT !.vehicle_id_counter = @ + 1]
        vs1 == Append(vs, v)
        controller == VehicleController(<< v.id, net, f.monitor >>)
    IN  IF controller = <<>>
        THEN [fleet |-> f1, vehicles |-> vs1, raised |-> TRUE]
        ELSE LET f2 == [f1 EXCEPT !.controllers = Append(@, controller[1])]
                 destination ==
                     fleet_get_random_destination(net, v.current_intersection, r)
             IN  [fleet |-> f2,
                  vehicles |->
                      IF destination # None
                      THEN [vs1 EXCEPT ![Len(vs1)] =
                               set_destination(net, v, destination).vehicle]
                      ELSE vs1,
                  raised |-> FALSE]

\* for spawner in self.spawners, from spawner k on: an exception of
\* add_vehicle ends the loop and the tick.  `a` is what add_vehicle did with
\* the vehicle of spawner k.
RECURSIVE RunSpawners(_, _, _, _, _, _, _, _, _)
AfterAddVehicle(net, a, k, delta_time, draws, speeds, rs, log) ==
    IF a.raised
    THEN [fleet |-> a.fleet, vehicles |-> a.vehicles, raised |-> TRUE, log |-> log]
    ELSE RunSpawners(net, a.fleet, a.vehicles, k + 1, delta_time,
                     draws, speeds, rs, log)

RunSpawners(net, f, vs, k, delta_time, draws, speeds, rs, log) ==
    IF k > Len(f.spawners)
    THEN [fleet |-> f, vehicles |-> vs, raised |-> FALSE, log |-> log]
    ELSE LET s == spawner_update(f.spawners[k], delta_time, draws[k], speeds[k])
             f1 == [f EXCEPT !.spawners[k] = s.spawner]
             entry == [spawner |-> k, delta_time |-> delta_time,
                       spawn_rate |-> f.spawners[k].spawn_rate,
                       emitted |-> s.vehicle # <<>>, interval |-> s.interval]
         IN  IF s.vehicle = <<>>
             THEN RunSpawners(net, f1, vs, k + 1, delta_time, draws, speeds, rs,
                              Append(log, entry))
             ELSE AfterAddVehicle(net, add_vehicle(net, f1, vs, s.vehicle[1], rs[k]),
                                  k, delta_time, draws, speeds, rs,
                                  Append(log, entry))

\* controller.vehicle is the vehicle object: its place in the list.  A vehicle
\* that add_vehicle appended with an id already in the list stands behind
\* the vehicle of the controller.
IndexOfId(vs, id) ==
    CHOOSE k \in 1..Len(vs) :
        vs[k].id = id /\ \A j \in 1..(k - 1) : vs[j].id # id

\* Every controller reads the list as it was when the tick began.
RECURSIVE AdvanceControllers_snapshot(_, _, _, _, _, _, _, _)
AdvanceControllers_snapshot(net, sig, f, vs, k, delta_time, advanced, levels) ==
    IF k > Len(f.controllers)
    THEN [vehicles |-> vs, advanced |-> advanced]
    ELSE LET c == f.controllers[k]
             i == IndexOfId(vs, c.vehicle)
             others == IF c.other_vehicles # "fleet" THEN <<>>
                       ELSE IF advanced = <<>> THEN vs
                       ELSE advanced[1].seen
         IN  AdvanceControllers_snapshot(
                 net, sig, f,
                 [vs EXCEPT ![i] = update(net, sig, vs[i], others, delta_time,
                                          levels[k]).vehicle],
                 k + 1, delta_time,
                 Append(advanced, [id |-> c.vehicle, seen |-> others]),
                 levels)

\* for controller in self.controllers: controller.update(delta_time), from
\* controller k on; `advanced` lists the ids in the order of their update,
\* and levels[k] is the level_ahead of controller k's update.
RECURSIVE AdvanceControllers(_, _, _, _, _, _, _, _)
AdvanceControllers(net, sig, f, vs, k, delta_time, advanced, levels) ==
    IF k > Len(f.controllers)
    THEN [vehicles |-> vs, advanced |-> advanced]
    ELSE LET c == f.controllers[k]
             i == IndexOfId(vs, c.vehicle)
             others == IF c.other_vehicles = "fleet" THEN vs ELSE <<>>
         IN  AdvanceControllers(
                 net, sig, f,
                 [vs EXCEPT ![i] = update(net, sig, vs[i], others, delta_time,
                                          levels[k]).vehicle],
                 k + 1, delta_time,
                 Append(advanced, [id |-> c.vehicle, seen |-> others]),
                 levels)

\* The indices of the Arrived vehicles are popped from both lists, highest first.
\* Only the last Arrived vehicle of the list is popped.
RemoveArrived_one(vs, controllers, i) ==
    LET arrived == {j \in 1..i : vs[j].state = "arrived"}
        a == CHOOSE j \in arrived : \A l \in arrived : l <= j
    IN  IF arrived = {} THEN [vehicles |-> vs, controllers |-> controllers]
        ELSE [vehicles |->
                 [k \in 1..(Len(vs) - 1) |-> IF k < a THEN vs[k] ELSE vs[k + 1]],
              controllers |->
                 [k \in 1..(Len(controllers) - 1) |->
                     IF k < a THEN controllers[k] ELSE controllers[k + 1]]]

\* Every vehicle that is not Driving is popped.
RECURSIVE RemoveArrived_all_at_rest(_, _, _)
RemoveArrived_all_at_rest(vs, controllers, i) ==
    IF i = 0 THEN [vehicles |-> vs, controllers |-> controllers]
    ELSE IF vs[i].state # "driving"
    THEN RemoveArrived_all_at_rest(
             [k \in 1..(Len(vs) - 1) |-> IF k < i THEN vs[k] ELSE vs[k + 1]],
             [k \in 1..(Len(controllers) - 1) |->
                 IF k < i THEN controllers[k] ELSE controllers[k + 1]],
             i - 1)
    ELSE RemoveArrived_all_at_rest(vs, controllers, i - 1)

RECURSIVE RemoveArrived(_, _, _)
RemoveArrived(vs, controllers, i) ==
    IF i = 0 THEN [vehicles |-> vs, controllers |-> controllers]
    ELSE IF vs[i].state = "arrived"
    THEN RemoveArrived(
             [k \in 1..(Len(vs) - 1) |-> IF k < i THEN vs[k] ELSE vs[k + 1]],
             [k \in 1..(Len(controllers) - 1) |->
                 IF k < i THEN controllers[k] ELSE controllers[k + 1]],
             i - 1)
    ELSE RemoveArrived(vs, controllers, i - 1)

Arrived(vs) == {vs[k].id : k \in {j \in 1..Len(vs) : vs[j].state = "arrived"}}

\* The tick after its controllers advanced (a): the removal.
AfterAdvance(f, a, log, spawned) ==
    [fleet |-> [f EXCEPT !.controllers =
                   RemoveArrived(a.vehicles, f.controllers, Len(a.vehicles)).controllers],
     vehicles |-> RemoveArrived(a.vehicles, f.controllers, Len(a.vehicles)).vehicles,
     raised |-> FALSE, log |-> log, spawned |-> spawned,
     advanced |-> a.advanced, removed |-> Arrived(a.vehicles)]

ShareVehicles(f) ==
    [f EXCEPT !.controllers =
        [k \in DOMAIN @ |-> [@[k] EXCEPT !.other_vehicles = "fleet"]]]

\* The tick after its spawners ran (s): nothing more if add_vehicle raised,
\* else the refresh of other_vehicles and the advance of every controller.
AfterSpawners(net, sig, s, vs, delta_time, levels) ==
    IF s.raised
    THEN [fleet |-> s.fleet, vehicles |-> s.vehicles, raised |-> TRUE,
          log |-> s.log,
          spawned |-> SubSeq(s.vehicles, Len(vs) + 1, Len(s.vehicles)),
          advanced |-> <<>>, removed |-> {}]
    ELSE AfterAdvance(ShareVehicles(s.fleet),
                      AdvanceControllers(net, sig, ShareVehicles(s.fleet),
                                         s.vehicles, 1, delta_time, <<>>, levels),
                      s.log, SubSeq(s.vehicles, Len(vs) + 1, Len(s.vehicles)))

\* VehicleFleet.update
fleet_update(net, sig, f, vs, delta_time, draws, speeds, rs, levels) ==
    AfterSpawners(net, sig,
                  RunSpawners(net,
                              IF f.monitor # <<>>
                              THEN [f EXCEPT !.monitor =
                                       << monitor_update(@[1], delta_time) >>]
                              ELSE f,
                              vs, 1, delta_time, draws, speeds, rs, <<>>),
                  vs, delta_time, levels)

\* visualization.py: _adjust_selected_spawner_rate, for the spawners at `selected`.
adjust_selected_spawner_rate(f, selected, delta) ==
    [f EXCEPT !.spawners =
        [k \in DOMAIN @ |->
            IF @[k].spawn_intersection = selected
            THEN [@[k] EXCEPT !.spawn_rate = Max(0, @ + delta)]
            ELSE @[k]]]

(***************************************************************************)
(* The network and the signals of the runs, built with the program's own   *)
(* operations, roads in this creation order:                               *)
(*   0 -> 1 (100 m), 0 -> 3 (100 m), 1 -> 2 (50 m), 3 -> 2 (100 m).        *)
(* Intersection 2 has a two-phase controller (phase 0 lets direction 1 in, *)
(* phase 1 direction 3); intersection 3 has a deprecated red/green light   *)
(* without directions.  Nothing leads to 0, and 1 and 3 do not reach each  *)
(* other.                                                                  *)
(***************************************************************************)
RECURSIVE AddIntersections(_, _)
AddIntersections(net, n) ==
    IF n = 0 THEN net ELSE AddIntersections(add_intersection(net), n - 1)

ExampleNetwork ==
    LET n0 == AddIntersections(EmptyNetwork, 4)
        n1 == add_road(n0, 0, 1, 100, 50)
        n2 == add_road(n1, 0, 3, 100, 50)
        n3 == add_road(n2, 1, 2, 50, 50)
    IN  add_road(n3, 3, 2, 100, 50)

TrafficLightPhase(allowed_directions, duration) ==
    [allowed_directions |-> allowed_directions, duration |-> duration]

TrafficLightController(phases) ==
    [phases |-> phases, current_phase_index |-> 0, time_in_phase |-> 0]

TrafficLight(green_duration, red_duration) ==
    [state |-> "green", green_duration |-> green_duration,
     red_duration |-> red_duration, time_in_state |-> 0,
     allowed_directions |-> <<>>]

NoSignal == [traffic_light |-> <<>>, traffic_light_controller |-> <<>>]

ExampleSignals ==
    [k \in 1..4 |->
        IF k = 3
        THEN [traffic_light |-> <<>>,
              traffic_light_controller |->
                << TrafficLightController(<< TrafficLightPhase({1}, 1),
                                             TrafficLightPhase({3}, 1) >>) >>]
        ELSE IF k = 4
        THEN [traffic_light |-> << TrafficLight(1, 1) >>,
              traffic_light_controller |-> <<>>]
        ELSE NoSignal]

\* The driver's loop over all intersections (visualization.py), one delta_time for all.
update_signals(sig, delta_time) ==
    [k \in DOMAIN sig |->
        [traffic_light |->
            IF sig[k].traffic_light # <<>>
            THEN << light_update(sig[k].traffic_light[1], delta_time) >>
            ELSE <<>>,
         traffic_light_controller |->
            IF sig[k].traffic_light_controller # <<>>
            THEN << controller_update(sig[k].traffic_light_controller[1], delta_time) >>
            ELSE <<>>]]

NoSignals == [k \in 1..4 |-> NoSignal]

(***************************************************************************)
(* The state machine.  Every controller's other_vehicles is the one shared *)
(* list `vehicles` (the assignment fleet.update makes), so a controller    *)
(* reads the current fields of every other vehicle.  `last` records the    *)
(* last call: its arguments, the vehicle as it was before the call, and    *)
(* what the call computed and returned.                                    *)
(***************************************************************************)
NoOp ==
    [op |-> "init", index |-> 0, delta_time |-> 0, destination |-> None,
     before |-> Vehicle(None, 0, 0), result |-> FALSE, acted |-> FALSE,
     red |-> FALSE, ahead |-> <<>>, tentative |-> 0, committed |-> 0,
     entered |-> <<>>, path |-> <<>>]

\* No call on the fleet yet.  supplied and consumed add up, per spawner, the
\* delta_time given to its update and the intervals its spawns used up; ids
\* lists the ids add_vehicle has given out, in order.
NoTick ==
    [op |-> "init", delta_time |-> 0, raised |-> FALSE, log |-> <<>>,
     spawned |-> <<>>, advanced |-> <<>>, removed |-> {},
     exclude |-> None, result |-> None,
     supplied |-> <<0, 0>>, consumed |-> <<0, 0>>,
     ids |-> <<>>, clock |-> 0]

Init ==
    /\ network = ExampleNetwork
    /\ signals = ExampleSignals
    /\ vehicles = <<>>
    /\ last = NoOp
    /\ fleet = VehicleFleet
    /\ tick = NoTick

\* Vehicle(id, current_intersection, speed) and VehicleController(vehicle, network),
\* both appended by the caller to the lists of the fleet; other_vehicles of
\* the new controller is its own empty list.  The caller numbers its
\* vehicles 0, 1, ...: tick.ids lists the ids given out.
NewVehicle(at, speed) ==
    /\ vehicles' = Append(vehicles, Vehicle(Len(tick.ids), at, speed))
    /\ fleet' = [fleet EXCEPT !.controllers =
                    Append(@, VehicleController(<<Len(tick.ids), "network">>)[1])]
    /\ tick' = [tick EXCEPT !.ids = Append(@, Len(tick.ids))]
    /\ last' = [NoOp EXCEPT !.op = "new", !.index = Len(vehicles) + 1]
    /\ UNCHANGED <<network, signals>>

\* self.other_vehicles of the controller of vehicles[i]: [] until the first
\* fleet.update, the list fleet.vehicles from then on.
OtherVehicles(i) ==
    IF fleet.controllers[i].other_vehicles = "fleet" THEN vehicles ELSE <<>>

SetDestination(i, destination) ==
    LET r == set_destination(network, vehicles[i], destination)
    IN  /\ vehicles' = [vehicles EXCEPT ![i] = r.vehicle]
        /\ last' = [NoOp EXCEPT !.op = "set_destination", !.index = i,
                                !.destination = destination,
                                !.before = vehicles[i], !.result = r.result]
        /\ UNCHANGED <<network, signals, fleet, tick>>

Update(i, delta_time, level_ahead) ==
    LET r == update(network, signals, vehicles[i], OtherVehicles(i), delta_time,
                    level_ahead)
    IN  /\ vehicles' = [vehicles EXCEPT ![i] = r.vehicle]
        /\ last' = [NoOp EXCEPT !.op = "update", !.index = i,
                                !.delta_time = delta_time,
                                !.before = vehicles[i], !.acted = r.acted,
                                !.red = r.red, !.ahead = r.ahead,
                                !.tentative = r.tentative,
                                !.committed = r.committed,
                                !.entered = r.entered]
        /\ UNCHANGED <<network, signals, fleet, tick>>

UpdateSignals(delta_time) ==
    /\ signals' = update_signals(signals, delta_time)
    /\ last' = [NoOp EXCEPT !.op = "signals", !.delta_time = delta_time]
    /\ UNCHANGED <<network, vehicles, fleet, tick>>

\* The level_ahead of each controller of one fleet.update: a choice only
\* when two of the vehicles vs are on a road, as of one vehicle the floats
\* decide nothing.
Levels(vs, n) ==
    IF \E j, k \in 1..Len(vs) :
          j # k /\ vs[j].current_road # None /\ vs[k].current_road # None
    THEN [1..n -> BOOLEAN]
    ELSE {[k \in 1..n |-> FALSE]}

\* The level_ahead of controller.update for vehicles[i]: a choice only when
\* a vehicle of its other_vehicles is level with it on its road.
LevelAhead(i) ==
    IF check_vehicle_ahead(vehicles[i], OtherVehicles(i), TRUE)
          # check_vehicle_ahead(vehicles[i], OtherVehicles(i), FALSE)
    THEN BOOLEAN
    ELSE {FALSE}

\* fleet.update(delta_time) on the fleet without spawners and monitor: r is
\* the call's result.
Ticked(r, delta_time) ==
    /\ fleet' = r.fleet
    /\ vehicles' = r.vehicles
    /\ last' = [NoOp EXCEPT !.op = "fleet_update", !.delta_time = delta_time,
                            !.result = (r.removed # {})]
    /\ UNCHANGED <<network, signals, tick>>

FleetTick(delta_time, levels) ==
    Ticked(fleet_update(network, signals, fleet, vehicles, delta_time,
                        <<>>, <<>>, <<>>, levels),
           delta_time)

(***************************************************************************)
(* Spec: up to MaxVehicles vehicles on the signalled network, each given   *)
(* its destination once, while Idle (the life cycle of a fleet vehicle).   *)
(* The caller advances one controller by controller.update(dt), as         *)
(* test_vehicle.py does, or the whole fleet by fleet.update(dt), which     *)
(* hands fleet.vehicles to every controller, advances them in list order   *)
(* and removes the Arrived vehicles.  The vehicles start at intersection 0 *)
(* or 1, from where every other intersection but 0 is reachable.           *)
(***************************************************************************)
StartIntersections == {0, 1}

Next ==
    \/ \E at \in StartIntersections, speed \in Speeds :
          Len(tick.ids) < MaxVehicles /\ NewVehicle(at, speed)
    \/ \E i \in 1..Len(vehicles), d \in IntersectionIds(network) :
          vehicles[i].state = "idle" /\ SetDestination(i, d)
    \/ \E i \in 1..Len(vehicles), dt \in DeltaTimes :
          \E level_ahead \in LevelAhead(i) : Update(i, dt, level_ahead)
    \/ \E dt \in DeltaTimes, levels \in Levels(vehicles, Len(fleet.controllers)) :
          FleetTick(dt, levels)
    \/ \E dt \in DeltaTimes : UpdateSignals(dt)

Spec == Init /\ [][Next]_vars

(***************************************************************************)
(* SpecSolo: one vehicle on the signalled network; set_destination may be  *)
(* called in any state of the vehicle, also mid-road.                      *)
(***************************************************************************)
NextSolo ==
    \/ \E at \in IntersectionIds(network), speed \in Speeds :
          Len(vehicles) < 1 /\ NewVehicle(at, speed)
    \/ \E i \in 1..Len(vehicles), d \in IntersectionIds(network) : SetDestination(i, d)
    \/ \E i \in 1..Len(vehicles), dt \in DeltaTimes : Update(i, dt, FALSE)
    \/ \E dt \in DeltaTimes : UpdateSignals(dt)

SpecSolo == Init /\ [][NextSolo]_vars

(***************************************************************************)
(* SpecTrip: one vehicle on the network without signals, given its         *)
(* destination once and then driven by update(dt) with dt > 0.  The caller *)
(* keeps calling update: weak fairness of the update step.                 *)
(***************************************************************************)
InitTrip ==
    /\ network = ExampleNetwork
    /\ signals = NoSignals
    /\ vehicles = <<>>
    /\ last = NoOp
    /\ fleet = VehicleFleet
    /\ tick = NoTick

PositiveDeltaTimes == {dt \in DeltaTimes : dt > 0}

Drive == \E i \in 1..Len(vehicles), dt \in PositiveDeltaTimes : Update(i, dt, FALSE)

NextTrip ==
    \/ \E at \in IntersectionIds(network), speed \in Speeds :
          Len(vehicles) < 1 /\ NewVehicle(at, speed)
    \/ \E i \in 1..Len(vehicles), d \in IntersectionIds(network) :
          vehicles[i].state = "idle" /\ SetDestination(i, d)
    \/ Drive

SpecTrip == InitTrip /\ [][NextTrip]_vars /\ WF_vars(Drive)

(***************************************************************************)
(* SpecFleet: a fleet with two spawners on the example network, spawner 1  *)
(* at intersection 0 with rate 0.1 and spawner 2 at intersection 1 with    *)
(* rate 0, with or without a monitor.  The caller goes on after a call     *)
(* that raised.                                                            *)
(***************************************************************************)
MaxFleet == 2

MaxTime == 6

MaxRate == 1

Intervals == {1, 2}

WithDestinations(net, ds) ==
    [net EXCEPT !.intersections =
        [k \in DOMAIN @ |->
            [@[k] EXCEPT !.is_destination = (net.intersections[k].id \in ds)]]]

ExampleFleet(draw) ==
    add_spawner(add_spawner(VehicleFleet, 0, 1, 180, 185, draw), 1, 0, 180, 185, draw)

ExampleFleets == {ExampleFleet(draw) : draw \in Intervals}

InitFleet ==
    /\ network = ExampleNetwork
    /\ signals = NoSignals
    /\ vehicles = <<>>
    /\ last = NoOp
    /\ fleet \in ExampleFleets
                 \cup {set_monitor(f, TrafficMonitor(60)) : f \in ExampleFleets}
    /\ tick = NoTick

\* The sums of tick, after the spawner updates listed in log.
RECURSIVE Account(_, _)
Account(t, log) ==
    IF log = <<>> THEN t
    ELSE LET e == Head(log)
         IN  Account([t EXCEPT !.supplied[e.spawner] = @ + e.delta_time,
                               !.consumed[e.spawner] = @ + e.interval],
                     Tail(log))

RECURSIVE Ids(_)
Ids(vs) == IF vs = <<>> THEN <<>> ELSE << Head(vs).id >> \o Ids(Tail(vs))

\* tick after a call that did r: the call's own fields, and the sums.
Noted(t, op, delta_time, r, log, spawned) ==
    [Account(t, log) EXCEPT
        !.op = op, !.delta_time = delta_time, !.raised = r.raised, !.log = log,
        !.spawned = spawned, !.advanced = r.advanced, !.removed = r.removed,
        !.exclude = None, !.result = None, !.ids = @ \o Ids(spawned),
        !.clock = @ + delta_time]

FleetUpdated(r, delta_time) ==
    /\ fleet' = r.fleet
    /\ vehicles' = r.vehicles
    /\ tick' = Noted(tick, "update", delta_time, r, r.log, r.spawned)
    /\ last' = [NoOp EXCEPT !.op = "fleet"]
    /\ UNCHANGED <<network, signals>>

FleetUpdate(delta_time, draws, speeds, rs, levels) ==
    FleetUpdated(fleet_update(network, signals, fleet, vehicles, delta_time,
                              draws, speeds, rs, levels),
                 delta_time)

VehicleAdded(a) ==
    /\ fleet' = a.fleet
    /\ vehicles' = a.vehicles
    /\ tick' = Noted(tick, "add_vehicle", 0,
                     [raised |-> a.raised, advanced |-> <<>>, removed |-> {}],
                     <<>>, SubSeq(a.vehicles, Len(vehicles) + 1, Len(a.vehicles)))
    /\ last' = [NoOp EXCEPT !.op = "fleet"]
    /\ UNCHANGED <<network, signals>>

AddVehicle(at, speed, r) ==
    VehicleAdded(add_vehicle(network, fleet, vehicles, Vehicle(None, at, speed), r))

AdjustSpawnerRate(selected, delta) ==
    /\ fleet' = adjust_selected_spawner_rate(fleet, selected, delta)
    /\ tick' = [tick EXCEPT
                   !.op = "adjust", !.delta_time = 0, !.raised = FALSE,
                   !.log = <<>>, !.spawned = <<>>, !.advanced = <<>>,
                   !.removed = {}, !.exclude = selected, !.result = None]
    /\ last' = [NoOp EXCEPT !.op = "fleet"]
    /\ UNCHANGED <<network, signals, vehicles>>

Choices == 0..2

NextFleet ==
    \/ \E dt \in DeltaTimes, draws \in [1..2 -> Intervals],
          speed \in Speeds, r \in Choices,
          levels \in Levels(vehicles, Len(fleet.controllers)) :
          /\ Len(vehicles) < MaxFleet
          /\ tick.clock + dt <= MaxTime
          /\ FleetUpdate(dt, draws, <<speed, speed>>, <<r, r>>, levels)
    \/ \E at \in {0, 1}, speed \in Speeds, r \in Choices :
          Len(vehicles) < MaxFleet /\ AddVehicle(at, speed, r)
    \/ \E selected \in {0, 1}, delta \in {0 - 1, 1} :
          /\ \A k \in 1..Len(fleet.spawners) :
                fleet.spawners[k].spawn_intersection = selected
                    => fleet.spawners[k].spawn_rate + delta <= MaxRate
          /\ AdjustSpawnerRate(selected, delta)

SpecFleet == InitFleet /\ [][NextFleet]_vars

(***************************************************************************)
(* SpecDestination: add_vehicle and the two destination draws, on the      *)
(* example network with any set of intersections marked as destinations    *)
(* (examples.py clears is_destination of some) and on the network of one   *)
(* intersection, for the fleet of SpecFleet.                               *)
(***************************************************************************)
DestinationNetworks ==
    {WithDestinations(ExampleNetwork, ds) : ds \in SUBSET (0..3)}
        \cup {add_intersection(EmptyNetwork)}

InitDestination ==
    /\ network \in DestinationNetworks
    /\ signals = NoSignals
    /\ vehicles = <<>>
    /\ last = NoOp
    /\ fleet \in ExampleFleets
    /\ tick = NoTick

FleetGetRandomDestination(exclude_intersection, r) ==
    /\ tick' = [tick EXCEPT
                   !.op = "fleet_destination", !.delta_time = 0, !.raised = FALSE,
                   !.log = <<>>, !.spawned = <<>>, !.advanced = <<>>,
                   !.removed = {}, !.exclude = exclude_intersection,
                   !.result = fleet_get_random_destination(
                                  network, exclude_intersection, r)]
    /\ last' = [NoOp EXCEPT !.op = "fleet"]
    /\ UNCHANGED <<network, signals, vehicles, fleet>>

SpawnerGetRandomDestination(k, r) ==
    /\ tick' = [tick EXCEPT
                   !.op = "spawner_destination", !.delta_time = 0, !.raised = FALSE,
                   !.log = <<>>, !.spawned = <<>>, !.advanced = <<>>,
                   !.removed = {}, !.exclude = fleet.spawners[k].spawn_intersection,
                   !.result = spawner_get_random_destination(
                                  network, fleet.spawners[k], r)]
    /\ last' = [NoOp EXCEPT !.op = "fleet"]
    /\ UNCHANGED <<network, signals, vehicles, fleet>>

NextDestination ==
    \/ \E at \in IntersectionIds(network) \cap {0, 1}, speed \in Speeds,
          r \in Choices :
          Len(vehicles) < MaxFleet /\ AddVehicle(at, speed, r)
    \/ \E x \in IntersectionIds(network), r \in Choices :
          FleetGetRandomDestination(x, r)
    \/ \E k \in 1..Len(fleet.spawners), r \in Choices :
          SpawnerGetRandomDestination(k, r)

SpecDestination == InitDestination /\ [][NextDestination]_vars

(***************************************************************************)
(* SpecSignal: the three-phase controller of one intersection, built from *)
(* phases of 2 s, 0 or 1 s, and 3 s (the constructor takes the durations   *)
(* its caller gives), updated by the driver's loop and re-timed by         *)
(* adjust_phase_duration and set_phase_duration, also with phase indices   *)
(* out of range.                                                           *)
(***************************************************************************)
MaxDuration == 3

SignalsWith(d0, d1, d2) ==
    [k \in 1..4 |->
        IF k = 3
        THEN [traffic_light |-> <<>>,
              traffic_light_controller |->
                << TrafficLightController(<< TrafficLightPhase({1}, d0),
                                             TrafficLightPhase({3}, d1),
                                             TrafficLightPhase({1, 3}, d2) >>) >>]
        ELSE NoSignal]

ThreePhaseSignals == {SignalsWith(2, d1, 3) : d1 \in {0, 1}}

InitSignal ==
    /\ network = ExampleNetwork
    /\ signals \in ThreePhaseSignals
    /\ vehicles = <<>>
    /\ last = NoOp
    /\ fleet = VehicleFleet
    /\ tick = NoTick

AdjustPhaseDuration(k, phase_index, delta) ==
    /\ signals' = [signals EXCEPT ![k].traffic_light_controller[1] =
                      adjust_phase_duration(@, phase_index, delta)]
    /\ last' = [NoOp EXCEPT !.op = "adjust_phase_duration", !.index = phase_index,
                            !.delta_time = delta]
    /\ UNCHANGED <<network, vehicles, fleet, tick>>

SetPhaseDuration(k, phase_index, duration) ==
    /\ signals' = [signals EXCEPT ![k].traffic_light_controller[1] =
                      set_phase_duration(@, phase_index, duration)]
    /\ last' = [NoOp EXCEPT !.op = "set_phase_duration", !.index = phase_index,
                            !.delta_time = duration]
    /\ UNCHANGED <<network, vehicles, fleet, tick>>

Controlled == {k \in DOMAIN signals : signals[k].traffic_light_controller # <<>>}

NextSignal ==
    \/ \E dt \in DeltaTimes : UpdateSignals(dt)
    \/ \E k \in Controlled, phase_index \in (0 - 1)..3, delta \in {0 - 1, 1} :
          /\ \A p \in 1..Len(signals[k].traffic_light_controller[1].phases) :
                signals[k].traffic_light_controller[1].phases[p].duration + delta
                    <= MaxDuration
          /\ AdjustPhaseDuration(k, phase_index, delta)
    \/ \E k \in Controlled, phase_index \in (0 - 1)..3, duration \in 0..MaxDuration :
          SetPhaseDuration(k, phase_index, duration)

SpecSignal == InitSignal /\ [][NextSignal]_vars

(***************************************************************************)
(* SpecCycle: a three-phase controller with any durations of 1 s to        *)
(* MaxDuration, driven by update(dt) with one dt for the whole run and     *)
(* never re-timed.  tick.clock is the simulated time since the controller  *)
(* entered phase 0 (or was built); when an update brings it back to phase  *)
(* 0, tick.result is the length of the cycle that ends.                    *)
(***************************************************************************)
CycleDeltaTimes == {1, 2, 4}

InitCycle ==
    /\ network = ExampleNetwork
    /\ signals \in {SignalsWith(d0, d1, d2) : d0, d1, d2 \in 1..MaxDuration}
    /\ vehicles = <<>>
    /\ last = NoOp
    /\ fleet = VehicleFleet
    /\ tick \in {[NoTick EXCEPT !.delta_time = dt] : dt \in CycleDeltaTimes}

Wraps(c, delta_time) ==
    /\ c.current_phase_index = Len(c.phases) - 1
    /\ controller_update(c, delta_time).current_phase_index = 0

CycleUpdate(k) ==
    /\ signals' = update_signals(signals, tick.delta_time)
    /\ last' = [NoOp EXCEPT !.op = "signals", !.delta_time = tick.delta_time]
    /\ tick' = [tick EXCEPT
                   !.op = "cycle",
                   !.clock = IF Wraps(signals[k].traffic_light_controller[1],
                                      tick.delta_time)
                             THEN 0 ELSE @ + tick.delta_time,
                   !.result = IF Wraps(signals[k].traffic_light_controller[1],
                                       tick.delta_time)
                              THEN tick.clock + tick.delta_time ELSE None]
    /\ UNCHANGED <<network, vehicles, fleet>>

NextCycle == \E k \in Controlled : CycleUpdate(k)

SpecCycle == InitCycle /\ [][NextCycle]_vars

(***************************************************************************)
(* SpecNetwork: a network built from nothing by add_intersection and       *)
(* add_road, the latter also with ids that no intersection has (-1 and     *)
(* ids not yet given out).  last records the call: for add_road its        *)
(* from_id (index), to_id (destination), whether it returned (result) and  *)
(* the id of the road returned (committed); for add_intersection the id of *)
(* the intersection returned (index).                                      *)
(***************************************************************************)
MaxIntersections == 3
MaxRoads == 3

\* from_id and to_id of the calls: 0 and 1, 2 (absent until the third
\* intersection is added) and -1 (always absent)
RoadEnds == (0 - 1)..2

InitNetwork ==
    /\ network = EmptyNetwork
    /\ signals = <<>>
    /\ vehicles = <<>>
    /\ last = NoOp
    /\ fleet = VehicleFleet
    /\ tick = NoTick

AddIntersection ==
    /\ network.intersection_counter < MaxIntersections
    /\ network' = add_intersection(network)
    /\ last' = [NoOp EXCEPT !.op = "add_intersection",
                            !.index = network.intersection_counter,
                            !.result = TRUE]
    /\ UNCHANGED <<signals, vehicles, fleet, tick>>

AddRoad(from_id, to_id) ==
    /\ network.road_counter < MaxRoads \/ add_road_raises(network, from_id, to_id)
    /\ network' = add_road(network, from_id, to_id, 100, 50)
    /\ last' = [NoOp EXCEPT
                   !.op = "add_road",
                   !.index = from_id,
                   !.destination = to_id,
                   !.result = ~add_road_raises(network, from_id, to_id),
                   !.committed = IF add_road_raises(network, from_id, to_id)
                                 THEN None ELSE network.road_counter]
    /\ UNCHANGED <<signals, vehicles, fleet, tick>>

NextNetwork ==
    \/ AddIntersection
    \/ \E from_id, to_id \in RoadEnds : AddRoad(from_id, to_id)

SpecNetwork == InitNetwork /\ [][NextNetwork]_vars

(***************************************************************************)
(* SpecPath: four intersections, one-way roads added one at a time between *)
(* any two different intersections, and find_shortest_path called for any  *)
(* start and end on the network as it then is.  last records the call:     *)
(* start (index), end (destination) and the sequence returned (path).      *)
(***************************************************************************)
MaxPathRoads == 4

PathNodes == 0..3

InitPath ==
    /\ network = AddIntersections(EmptyNetwork, 4)
    /\ signals = <<>>
    /\ vehicles = <<>>
    /\ last = NoOp
    /\ fleet = VehicleFleet
    /\ tick = NoTick

PathAddRoad(from_id, to_id) ==
    /\ network.road_counter < MaxPathRoads
    /\ from_id # to_id
    /\ network' = add_road(network, from_id, to_id, 100, 50)
    /\ last' = [NoOp EXCEPT !.op = "add_road"]
    /\ UNCHANGED <<signals, vehicles, fleet, tick>>

FindShortestPath(start, end) ==
    /\ last' = [NoOp EXCEPT !.op = "find_shortest_path",
                            !.index = start,
                            !.destination = end,
                            !.path = find_shortest_path(network, start, end)]
    /\ UNCHANGED <<network, signals, vehicles, fleet, tick>>

NextPath ==
    \/ \E from_id, to_id \in PathNodes : PathAddRoad(from_id, to_id)
    \/ \E start, end \in PathNodes : FindShortestPath(start, end)

SpecPath == InitPath /\ [][NextPath]_vars

(***************************************************************************)
(* SpecMonitor: a monitor with a window of 1 s (asked for: 0 s) or 2 s,    *)
(* with record_pass, update, clear and the rate queries called in any      *)
(* order.  tick.log lists the passes recorded since the monitor was built  *)
(* or cleared, each with the clock of its record_pass; last records the    *)
(* call and, for a query, the intersection asked for (index), the total    *)
(* returned (committed) and the rates returned (entered).                  *)
(***************************************************************************)
MaxClock == 5
MaxPasses == 3

Windows == {0, 2}

\* (intersection_id, from_id, to_id) of the passes recorded
Passes == {<<1, 0, 2>>, <<1, 0, None>>, <<2, 1, None>>}

InitMonitor ==
    /\ network = ExampleNetwork
    /\ signals = NoSignals
    /\ vehicles = <<>>
    /\ last = NoOp
    /\ fleet \in {set_monitor(VehicleFleet, TrafficMonitor(w)) : w \in Windows}
    /\ tick = NoTick

MonitorUpdate(delta_time) ==
    /\ fleet.monitor[1].time + delta_time <= MaxClock
    /\ fleet' = [fleet EXCEPT !.monitor[1] = monitor_update(@, delta_time)]
    /\ last' = [NoOp EXCEPT !.op = "update", !.delta_time = delta_time]
    /\ UNCHANGED <<network, signals, vehicles, tick>>

RecordPass(intersection_id, from_id, to_id) ==
    /\ Len(tick.log) < MaxPasses
    /\ fleet' = [fleet EXCEPT
                    !.monitor[1] = record_pass(@, intersection_id, from_id, to_id)]
    /\ tick' = [tick EXCEPT
                   !.log = Append(@, [intersection_id |-> intersection_id,
                                      from_id   |-> from_id,
                                      to_id     |-> to_id,
                                      timestamp |-> fleet.monitor[1].time])]
    /\ last' = [NoOp EXCEPT !.op = "record_pass", !.index = intersection_id]
    /\ UNCHANGED <<network, signals, vehicles>>

GetRates(intersection_id) ==
    /\ last' = [NoOp EXCEPT
                   !.op = "get_rates",
                   !.index = intersection_id,
                   !.committed = get_total_rate_for_intersection(fleet.monitor[1],
                                                                 intersection_id),
                   !.entered = get_rates_for_intersection(fleet.monitor[1],
                                                          intersection_id)]
    /\ UNCHANGED <<network, signals, vehicles, fleet, tick>>

Clear ==
    /\ fleet' = [fleet EXCEPT !.monitor[1] = clear(@)]
    /\ tick' = [tick EXCEPT !.log = <<>>]
    /\ last' = [NoOp EXCEPT !.op = "clear"]
    /\ UNCHANGED <<network, signals, vehicles>>

NextMonitor ==
    \/ \E delta_time \in DeltaTimes \cup {0 - 1} : MonitorUpdate(delta_time)
    \/ \E p \in Passes : RecordPass(p[1], p[2], p[3])
    \/ \E intersection_id \in 0..2 : GetRates(intersection_id)
    \/ Clear

SpecMonitor == InitMonitor /\ [][NextMonitor]_vars

(***************************************************************************)
(* SpecGreen: one vehicle on the road 0 -> 1 (100 m), bound for            *)
(* intersection 1, whose controller gives green to the approach from 0 for *)
(* g seconds and red for r seconds, in turn.  The vehicle and its          *)
(* controller were appended to the fleet by the caller.  Every frame of    *)
(* the loop calls fleet.update and then updates the signals with the same  *)
(* delta_time (tick.delta_time, one value for the whole run); the fleet    *)
(* removes the vehicle in the frame that takes it to intersection 1.  The  *)
(* loop keeps running: weak fairness of the frame.                         *)
(***************************************************************************)
SlowSpeeds == {9, 18, 90}

GreenDurations == 1..MaxDuration

GreenSignals(g, r) ==
    [k \in 1..4 |->
        IF k = 2
        THEN [traffic_light |-> <<>>,
              traffic_light_controller |->
                << TrafficLightController(<< TrafficLightPhase({0}, g),
                                             TrafficLightPhase({2}, r) >>) >>]
        ELSE NoSignal]

InitGreen ==
    /\ network = ExampleNetwork
    /\ signals \in {GreenSignals(g, r) : g, r \in GreenDurations}
    /\ vehicles \in {<< set_destination(network, Vehicle(0, 0, speed), 1).vehicle >> :
                        speed \in SlowSpeeds}
    /\ last = NoOp
    /\ fleet = [VehicleFleet EXCEPT
                   !.controllers = VehicleController(<<0, "network">>)]
    /\ tick \in {[NoTick EXCEPT !.delta_time = dt] : dt \in PositiveDeltaTimes}

\* One frame, r being what fleet.update did: the signals advance after it.
GreenUpdated(r) ==
    /\ fleet' = r.fleet
    /\ vehicles' = r.vehicles
    /\ signals' = update_signals(signals, tick.delta_time)
    /\ tick' = [tick EXCEPT !.op = "update", !.advanced = r.advanced,
                            !.removed = r.removed]
    /\ last' = [NoOp EXCEPT !.op = "fleet_update",
                            !.delta_time = tick.delta_time,
                            !.result = (r.removed # {})]
    /\ UNCHANGED network

GreenTick ==
    \E levels \in Levels(vehicles, Len(fleet.controllers)) :
        GreenUpdated(fleet_update(network, signals, fleet, vehicles,
                                  tick.delta_time, <<>>, <<>>, <<>>, levels))

NextGreen == GreenTick

SpecGreen == InitGreen /\ [][NextGreen]_vars /\ WF_vars(GreenTick)

(***************************************************************************)
(* SpecLane: three vehicles at intersection 0 in a fleet without spawners, *)
(* each with a controller built by VehicleController(vehicle, network) and *)
(* appended to fleet.controllers by the caller.  A vehicle is sent to      *)
(* intersection 1 (road 0 -> 1, 100 m) at any time, and fleet.update(1)    *)
(* advances the controllers in list order.  tick.clock counts the ticks.   *)
(***************************************************************************)
MaxLaneTicks == 4

LaneSpeeds == {3, 9}

LaneVehicles(speeds) == [k \in 1..3 |-> Vehicle(k - 1, 0, speeds[k])]

LaneFleet ==
    [VehicleFleet EXCEPT
        !.controllers = [k \in 1..3 |-> VehicleController(<<k - 1, "network">>)[1]]]

InitLane ==
    /\ network = ExampleNetwork
    /\ signals = NoSignals
    /\ vehicles \in {LaneVehicles(speeds) : speeds \in [1..3 -> LaneSpeeds]}
    /\ last = NoOp
    /\ fleet = LaneFleet
    /\ tick = NoTick

LaneSetDestination(i) ==
    /\ vehicles[i].state = "idle"
    /\ SetDestination(i, 1)

LaneUpdated(r, delta_time) ==
    /\ fleet' = r.fleet
    /\ vehicles' = r.vehicles
    /\ tick' = [tick EXCEPT !.op = "update", !.delta_time = delta_time,
                            !.advanced = r.advanced, !.removed = r.removed,
                            !.clock = @ + 1]
    /\ last' = [NoOp EXCEPT !.op = "fleet_update", !.delta_time = delta_time]
    /\ UNCHANGED <<network, signals>>

LaneTick(delta_time, levels) ==
    /\ tick.clock < MaxLaneTicks
    /\ LaneUpdated(fleet_update(network, signals, fleet, vehicles, delta_time,
                                <<>>, <<>>, <<>>, levels),
                   delta_time)

NextLane ==
    \/ \E i \in 1..Len(vehicles) : LaneSetDestination(i)
    \/ \E levels \in Levels(vehicles, Len(fleet.controllers)) : LaneTick(1, levels)

SpecLane == InitLane /\ [][NextLane]_vars

(***************************************************************************)
(* Helpers of the properties.                                              *)
(***************************************************************************)
\* The vehicle the last call was made on, as it is after the call.
After == vehicles[last.index]

Updated == last.op = "update"

DestinationSet == last.op = "set_destination"

\* Intersections reachable from `from` over directed roads, by closure.
RECURSIVE Closure(_, _)
Closure(net, reached) ==
    LET more == reached \cup
                {net.roads[k].to_intersection :
                    k \in {j \in 1..Len(net.roads) :
                              net.roads[j].from_intersection \in reached}}
    IN  IF more = reached THEN reached ELSE Closure(net, more)

Reachable(net, from, to) == to \in Closure(net, {from})

\* Where a vehicle is after covering a distance along its route, by metres:
\* offset is the distance into the road that starts at path[index + 1],
\* counted in 1/PU of a metre (progress times road length).
RECURSIVE MetricWalk(_, _, _, _)
MetricWalk(net, path, index, offset) ==
    IF index >= Len(path) - 1
    THEN [index |-> index, offset |-> 0, arrived |-> TRUE]
    ELSE LET road == get_road(net, get_road_between(net, path[index + 1], path[index + 2]))
         IN  IF offset >= road.length * PU
             THEN MetricWalk(net, path, index + 1, offset - road.length * PU)
             ELSE [index |-> index, offset |-> offset, arrived |-> FALSE]

MetricUpdate(net, v, delta_time) ==
    MetricWalk(net, v.path, v.current_path_index,
               v.progress_on_road * get_road(net, v.current_road).length
               + distance_traveled(v, delta_time) * (PU \div 3600))

(***************************************************************************)
(* C1: update never moves a vehicle into an intersection whose signal is   *)
(* not green for the direction it comes from: every node entered during    *)
(* one update call, also the second and later ones of a tick that spans    *)
(* several roads, has no signal or shows green for the node the vehicle    *)
(* came from.                                                              *)
(***************************************************************************)
C1_NoEntryOnRed ==
    Updated =>
        \A k \in 1..Len(last.entered) :
            ~has_red_light(signals, last.entered[k].to, last.entered[k].from)

(***************************************************************************)
(* C2: update never commits a progress past p - 0.03, p the smallest       *)
(* progress of the other vehicles strictly ahead on the same road, and     *)
(* when the call returns the vehicle is at or behind its leader's progress *)
(* minus the margin on the road it is then on.                             *)
(***************************************************************************)
C2_SafeDistance ==
    (Updated /\ last.acted) =>
        /\ last.ahead # <<>> => last.committed <= last.ahead[1] - min_safe_distance
        /\ LET leader == check_vehicle_ahead(After, vehicles, FALSE)
           IN  leader # <<>> =>
                   After.progress_on_road <= leader[1] - min_safe_distance

(***************************************************************************)
(* C3: with no leader and no red signal, update(dt) leaves the vehicle at  *)
(* the route node reached after the metres covered in the tick, with a     *)
(* residual progress equal to the remaining metres divided by the length   *)
(* of the road it is then on (also when the roads differ in length), and   *)
(* Arrived when that node is the last of the route.                        *)
(***************************************************************************)
C3_OvershootByMetres ==
    (Updated /\ last.acted /\ last.ahead = <<>> /\ ~last.red
        /\ \A k \in 1..Len(last.entered) :
              ~has_red_light(signals, last.entered[k].to, last.entered[k].from)) =>
        LET w == MetricUpdate(network, last.before, last.delta_time)
        IN  /\ After.current_path_index = w.index
            /\ After.current_intersection = After.path[w.index + 1]
            /\ (After.state = "arrived") = w.arrived
            /\ ~w.arrived =>
                 After.progress_on_road * get_road(network, After.current_road).length
                    = w.offset

(***************************************************************************)
(* C4: a Driving vehicle with speed > 0, alone on a network without        *)
(* signals, is Arrived at its destination after finitely many update(dt)   *)
(* calls with dt > 0; on the way current_path_index only grows, by one for *)
(* each node entered, the nodes entered are the next route nodes in order, *)
(* and current_intersection is path[current_path_index].                   *)
(***************************************************************************)
TripDriving == Len(vehicles) = 1 /\ vehicles[1].state = "driving"

TripArrived == Len(vehicles) = 1 /\ has_reached_destination(vehicles[1])

OnRoute(v) ==
    v.state = "driving" \/ (v.state = "arrived" /\ v.path # <<>>) =>
        /\ v.current_path_index + 1 \in 1..Len(v.path)
        /\ v.current_intersection = v.path[v.current_path_index + 1]

InRouteOrder ==
    TripDriving =>
        LET v == vehicles[1]
            w == vehicles'[1]
            hops == w.current_path_index - v.current_path_index
        IN  /\ hops >= 0
            /\ Len(last'.entered) = hops
            /\ \A k \in 1..hops :
                  /\ last'.entered[k].from = v.path[v.current_path_index + k]
                  /\ last'.entered[k].to = v.path[v.current_path_index + k + 1]
            /\ w.path = v.path

C4_TripCompletes ==
    /\ [](\A i \in 1..Len(vehicles) : OnRoute(vehicles[i]))
    /\ [][InRouteOrder]_vars
    /\ (TripDriving ~> TripArrived)

C4_Witness ==
    /\ TripArrived
    /\ Updated
    /\ vehicles[1].current_path_index = 2
    /\ last.before.current_path_index = 1

(***************************************************************************)
(* C5: under update the only state transition is Driving -> Arrived: a     *)
(* call on an Idle or Arrived vehicle changes none of its fields, and a    *)
(* call on a Driving vehicle leaves it Driving or Arrived.                 *)
(***************************************************************************)
C5_UpdateTransitions ==
    Updated =>
        /\ last.before.state # "driving" => After = last.before
        /\ last.before.state = "driving" => After.state \in {"driving", "arrived"}

C5_Witness ==
    /\ Updated
    /\ last.delta_time > 0
    /\ last.before.state = "driving"
    /\ After.state = "arrived"
    /\ \E j \in 1..Len(vehicles) : j # last.index /\ vehicles[j].state = "idle"

(***************************************************************************)
(* C6: set_destination(dest) with dest the vehicle's current intersection  *)
(* returns true and leaves the vehicle Arrived with destination = dest and *)
(* route = [current intersection].                                         *)
(***************************************************************************)
C6_DestinationIsHere ==
    (DestinationSet /\ last.destination = last.before.current_intersection) =>
        /\ last.result
        /\ After.state = "arrived"
        /\ After.destination = last.destination
        /\ After.path = <<last.before.current_intersection>>

(***************************************************************************)
(* C7: set_destination to an intersection that cannot be reached from the  *)
(* vehicle's current intersection returns false and leaves every field of  *)
(* the vehicle as it was before the call.                                  *)
(***************************************************************************)
Unreachable ==
    /\ DestinationSet
    /\ ~Reachable(network, last.before.current_intersection, last.destination)

C7_NoPathNoChange ==
    Unreachable => (~last.result /\ After = last.before)

C7_Witness ==
    /\ Unreachable
    /\ last.before.state = "driving"
    /\ last.before.progress_on_road > 0
    /\ last.before.destination # last.destination

(***************************************************************************)
(* C8: set_destination to a reachable intersection other than the current  *)
(* one returns true and sets the route to PathFinder's path (from the      *)
(* current intersection to the destination), the route index to 0, the     *)
(* progress to 0, the state to Driving and the current road to the         *)
(* network's road from the current intersection to route[1].               *)
(***************************************************************************)
ReachableElsewhere ==
    /\ DestinationSet
    /\ last.destination # last.before.current_intersection
    /\ Reachable(network, last.before.current_intersection, last.destination)

C8_RouteAssigned ==
    ReachableElsewhere =>
        /\ last.result
        /\ After.path = find_shortest_path(network,
                                           last.before.current_intersection,
                                           last.destination)
        /\ Len(After.path) > 1
        /\ After.path[1] = last.before.current_intersection
        /\ After.path[Len(After.path)] = last.destination
        /\ After.destination = last.destination
        /\ After.current_path_index = 0
        /\ After.progress_on_road = 0
        /\ After.state = "driving"
        /\ After.current_intersection = last.before.current_intersection
        /\ After.current_road # None
        /\ After.current_road = get_road_between(network, After.path[1], After.path[2])
        /\ get_road(network, After.current_road).from_intersection = After.path[1]
        /\ get_road(network, After.current_road).to_intersection = After.path[2]

C8_Witness ==
    /\ ReachableElsewhere
    /\ last.before.state = "driving"
    /\ last.before.progress_on_road > 0
    /\ last.before.current_path_index > 0
    /\ Len(After.path) = 2

(***************************************************************************)
(* C9: the progress update(dt) commits before the fold-over loop is at     *)
(* most the old progress plus (speed*1000/3600*dt)/road length; the        *)
(* car-following clamp and the signal clamp only lower the tentative       *)
(* value.                                                                  *)
(***************************************************************************)
C9_ClampsOnlyLower ==
    (Updated /\ last.acted) =>
        /\ last.committed <= last.tentative
        /\ last.committed <=
              last.before.progress_on_road
              + distance_progress(last.before, last.delta_time,
                                  get_road(network, last.before.current_road).length)

C9_Witness ==
    /\ Updated
    /\ last.acted
    /\ last.ahead # <<>>
    /\ last.red
    /\ last.delta_time > 0
    /\ last.committed < last.tentative

(***************************************************************************)
(* C10: when update returns, the vehicle's progress_on_road is in [0, 1):  *)
(* a value >= 1 is folded over inside the call, and progress is never      *)
(* negative.                                                               *)
(***************************************************************************)
C10_ProgressInUnitRange ==
    Updated => (0 <= After.progress_on_road /\ After.progress_on_road < PU)


(***************************************************************************)
(* C12: after any sequence of add_vehicle and fleet.update calls,          *)
(* fleet.vehicles and fleet.controllers have the same length and           *)
(* controllers[i].vehicle is vehicles[i] for every index i.                *)
(***************************************************************************)
C12_ControllerPerVehicle ==
    /\ Len(fleet.controllers) = Len(vehicles)
    /\ \A i \in 1..Len(vehicles) : fleet.controllers[i].vehicle = vehicles[i].id

(***************************************************************************)
(* C13: vehicle ids assigned by the fleet are 0, 1, 2, ... in order of     *)
(* addition: no two vehicles held by the fleet share an id, the id counter *)
(* never decreases, and no id is given out twice.                          *)
(***************************************************************************)
SequentialIds ==
    /\ \A k \in 1..Len(tick.ids) : tick.ids[k] = k - 1
    /\ fleet.vehicle_id_counter = Len(tick.ids)
    /\ \A i, j \in 1..Len(vehicles) : vehicles[i].id = vehicles[j].id => i = j
    /\ \A i \in 1..Len(vehicles) :
          \E k \in 1..Len(tick.ids) : tick.ids[k] = vehicles[i].id

CounterGrows == fleet'.vehicle_id_counter >= fleet.vehicle_id_counter

C13_SequentialIds == [](SequentialIds) /\ [][CounterGrows]_vars

C13_Witness ==
    /\ Len(vehicles) = 2
    /\ vehicles[1].id = 0
    /\ vehicles[2].id = 1
    /\ tick.op = "update"

(***************************************************************************)
(* C14: within one fleet.update(dt) the steps run in the fixed order       *)
(* monitor, all spawners, refresh of the peer lists, one advance of every  *)
(* controller, removal: every spawner is run, a vehicle spawned in the     *)
(* tick is a visible peer of every controller and is itself advanced in    *)
(* that tick, and only advanced vehicles are removed.                      *)
(***************************************************************************)
AdvancedIds == {tick.advanced[k].id : k \in 1..Len(tick.advanced)}

C14_TickOrder ==
    tick.op = "update" =>
        /\ Len(tick.log) = Len(fleet.spawners)
        /\ \A k \in 1..Len(tick.log) : tick.log[k].spawner = k
        /\ fleet.monitor # <<>> /\ tick.delta_time > 0
              => fleet.monitor[1].time = tick.clock
        /\ \A i \in 1..Len(tick.spawned) :
              /\ tick.spawned[i].id \in AdvancedIds
              /\ \A k \in 1..Len(tick.advanced) :
                    \E j \in 1..Len(tick.advanced[k].seen) :
                        tick.advanced[k].seen[j].id = tick.spawned[i].id
        /\ tick.removed \subseteq AdvancedIds

(***************************************************************************)
(* C16: every destination assigned to a spawned vehicle is an intersection *)
(* with is_destination = true and different from the spawn intersection;   *)
(* when no such intersection exists the vehicle gets no destination and    *)
(* its state is Idle.  The same holds of what the two draws return.        *)
(***************************************************************************)
Eligible(from) ==
    {network.intersections[k].id : k \in
        {j \in 1..Len(network.intersections) :
            /\ network.intersections[j].is_destination
            /\ network.intersections[j].id # from}}

C16_EligibleDestination ==
    /\ \A i \in 1..Len(vehicles) :
          /\ vehicles[i].destination # None
                => vehicles[i].destination \in Eligible(vehicles[i].current_intersection)
          /\ Eligible(vehicles[i].current_intersection) = {}
                => vehicles[i].destination = None /\ vehicles[i].state = "idle"
    /\ tick.op \in {"fleet_destination", "spawner_destination"} =>
          /\ tick.result # None => tick.result \in Eligible(tick.exclude)
          /\ Eligible(tick.exclude) = {} => tick.result = None

C16_Witness ==
    /\ tick.op = "fleet_destination"
    /\ tick.result # None
    /\ \E k \in 1..Len(network.intersections) :
          ~network.intersections[k].is_destination

(***************************************************************************)
(* C17: a spawner whose rate is <= 0 has an infinite next interval and     *)
(* emits no vehicle in any update call.                                    *)
(***************************************************************************)
C17_ZeroRateNeverSpawns ==
    /\ \A k \in 1..Len(fleet.spawners) :
          fleet.spawners[k].spawn_rate <= 0
              => fleet.spawners[k].next_spawn_interval = inf
    /\ \A k \in 1..Len(tick.log) :
          tick.log[k].spawn_rate <= 0 => ~tick.log[k].emitted

(***************************************************************************)
(* C18: when VehicleSpawner.update(dt) returns, time_since_last_spawn is   *)
(* below next_spawn_interval: it has emitted one vehicle for every drawn   *)
(* interval the accumulated time covers.                                   *)
(***************************************************************************)
C18_AllCoveredIntervalsSpawn ==
    \A k \in 1..Len(tick.log) :
        LET sp == fleet.spawners[tick.log[k].spawner]
        IN  ~Covers(sp.time_since_last_spawn, sp.next_spawn_interval)

(***************************************************************************)
(* C19: at every point the total delta_time supplied to a spawner equals   *)
(* the sum of the intervals its spawns consumed plus                       *)
(* time_since_last_spawn.                                                  *)
(***************************************************************************)
C19_NoTimeLost ==
    \A k \in 1..Len(fleet.spawners) :
        tick.supplied[k] = tick.consumed[k] + fleet.spawners[k].time_since_last_spawn

C19_Witness ==
    \E k \in 1..Len(fleet.spawners) :
        /\ \E j \in 1..Len(tick.log) :
              tick.log[j].spawner = k /\ tick.log[j].emitted
        /\ tick.consumed[k] > 0
        /\ fleet.spawners[k].time_since_last_spawn > 0

(***************************************************************************)
(* C20: TrafficLightController.update(dt) adds dt to the elapsed time and, *)
(* if the elapsed time is >= the current phase's duration, moves to phase  *)
(* (index + 1) mod phase-count and sets the elapsed time to 0; otherwise   *)
(* the phase stays.  The phase index never skips a phase.                  *)
(***************************************************************************)
PhaseStep(c, d, dt) ==
    LET elapsed == c.time_in_phase + dt
    IN  /\ d.phases = c.phases
        /\ IF elapsed >= c.phases[c.current_phase_index + 1].duration
           THEN /\ d.current_phase_index = (c.current_phase_index + 1) % Len(c.phases)
                /\ d.time_in_phase = 0
           ELSE /\ d.current_phase_index = c.current_phase_index
                /\ d.time_in_phase = elapsed

PhasesInOrder ==
    last'.op = "signals" =>
        \A k \in Controlled :
            PhaseStep(signals[k].traffic_light_controller[1],
                      signals'[k].traffic_light_controller[1], last'.delta_time)

C20_PhasesInOrder == [][PhasesInOrder]_vars

C20_Witness ==
    /\ last.op = "signals"
    /\ last.delta_time = 4
    /\ signals[3].traffic_light_controller[1].current_phase_index = 2
    /\ signals[3].traffic_light_controller[1].time_in_phase = 0

(***************************************************************************)
(* C21: for a controller driven by repeated update(dt) with unchanged      *)
(* durations, the simulated time of one full cycle (from one entry into    *)
(* phase 0 to the next) equals the sum of the phase durations.             *)
(***************************************************************************)
RECURSIVE SumDurations(_)
SumDurations(phases) ==
    IF phases = <<>> THEN 0 ELSE Head(phases).duration + SumDurations(Tail(phases))

C21_CycleTimeIsSum ==
    tick.op = "cycle" /\ tick.result # None =>
        \A k \in Controlled :
            tick.result = SumDurations(signals[k].traffic_light_controller[1].phases)

(***************************************************************************)
(* C22: after set_phase_duration or adjust_phase_duration on a valid phase *)
(* index, that phase's duration is max(1.0, requested value); the other    *)
(* phases, the current phase index and the elapsed time are unchanged.     *)
(***************************************************************************)
Retimed(c, d, phase_index, requested) ==
    /\ Len(d.phases) = Len(c.phases)
    /\ d.phases[phase_index + 1].duration = (IF requested >= 1 THEN requested ELSE 1)
    /\ d.phases[phase_index + 1].duration >= 1
    /\ d.phases[phase_index + 1].allowed_directions
          = c.phases[phase_index + 1].allowed_directions
    /\ \A p \in 1..Len(c.phases) : p # phase_index + 1 => d.phases[p] = c.phases[p]
    /\ d.current_phase_index = c.current_phase_index
    /\ d.time_in_phase = c.time_in_phase

ValidPhase(c, phase_index) == 0 <= phase_index /\ phase_index < Len(c.phases)

DurationClamped ==
    \A k \in Controlled :
        LET c == signals[k].traffic_light_controller[1]
            d == signals'[k].traffic_light_controller[1]
        IN  /\ last'.op = "set_phase_duration" /\ ValidPhase(c, last'.index)
                  => Retimed(c, d, last'.index, last'.delta_time)
            /\ last'.op = "adjust_phase_duration" /\ ValidPhase(c, last'.index)
                  => Retimed(c, d, last'.index,
                             c.phases[last'.index + 1].duration + last'.delta_time)

C22_DurationClamped == [][DurationClamped]_vars

C22_Witness ==
    /\ last.op = "adjust_phase_duration"
    /\ last.index = 0
    /\ last.delta_time = 0 - 1
    /\ signals[3].traffic_light_controller[1].phases[1].duration = 1
    /\ signals[3].traffic_light_controller[1].time_in_phase > 0

(***************************************************************************)
(* C23: every phase duration of a controller is >= 1.0 in every reachable  *)
(* state, including right after construction from caller-supplied phases.  *)
(***************************************************************************)
C23_DurationFloor ==
    \A k \in Controlled :
        \A p \in 1..Len(signals[k].traffic_light_controller[1].phases) :
            signals[k].traffic_light_controller[1].phases[p].duration >= 1

(***************************************************************************)
(* C24: add_road with a from_id or to_id that is not in the intersection   *)
(* map fails with the invalid-reference error and leaves the network       *)
(* unchanged: same intersections, same roads, same adjacency lists, same   *)
(* road-id counter.                                                        *)
(***************************************************************************)
IdsOf(net) == {net.intersections[k].id : k \in 1..Len(net.intersections)}

RejectedUnchanged ==
    last'.op = "add_road" /\ ~({last'.index, last'.destination} \subseteq IdsOf(network))
        => /\ ~last'.result
           /\ network'.intersections = network.intersections
           /\ network'.roads = network.roads
           /\ network'.adj_list = network.adj_list
           /\ network'.road_counter = network.road_counter
           /\ network'.intersection_counter = network.intersection_counter

C24_RejectedUnchanged == [][RejectedUnchanged]_vars

C24_Witness ==
    /\ last.op = "add_road"
    /\ ~last.result
    /\ last.index \in IdsOf(network)
    /\ last.destination \notin IdsOf(network)
    /\ Len(network.roads) >= 1

(***************************************************************************)
(* C25: after any sequence of add_intersection and add_road calls          *)
(* (including rejected ones), the adjacency index matches the road map:    *)
(* every intersection id has an adjacency list, each road of the road map  *)
(* occurs exactly once and only in the list of its from-intersection, and  *)
(* each list is in road-creation order.                                    *)
(***************************************************************************)
Occurrences(net, road_id) ==
    {<<k, p>> \in (1..Len(net.adj_list)) \X (1..MaxRoads + 1) :
        p <= Len(net.adj_list[k]) /\ net.adj_list[k][p] = road_id}

C25_AdjacencyConsistent ==
    /\ Len(network.adj_list) = Len(network.intersections)
    /\ \A r \in 1..Len(network.roads) :
          /\ Cardinality(Occurrences(network, network.roads[r].id)) = 1
          /\ \A o \in Occurrences(network, network.roads[r].id) :
                o[1] = network.roads[r].from_intersection + 1
    /\ \A k \in 1..Len(network.adj_list) :
          /\ \A p \in 1..Len(network.adj_list[k]) :
                \E r \in 1..Len(network.roads) :
                    network.roads[r].id = network.adj_list[k][p]
          /\ \A p, q \in 1..Len(network.adj_list[k]) :
                p < q => network.adj_list[k][p] < network.adj_list[k][q]

C25_Witness ==
    /\ last.op = "add_road"
    /\ ~last.result
    /\ Len(network.roads) = 3
    /\ network.adj_list[1] = <<0, 2>>
    /\ network.adj_list[2] = <<1>>
    /\ network.roads[2].to_intersection = 0

(***************************************************************************)
(* C26: intersection ids and road ids are each assigned 0, 1, 2, ... in    *)
(* creation order and are unique within the network; add_intersection      *)
(* always succeeds, and a rejected add_road consumes no road id.           *)
(***************************************************************************)
IdsSequential ==
    /\ \A k \in 1..Len(network.intersections) : network.intersections[k].id = k - 1
    /\ \A r \in 1..Len(network.roads) : network.roads[r].id = r - 1
    /\ \A k, j \in 1..Len(network.intersections) :
          network.intersections[k].id = network.intersections[j].id => k = j
    /\ \A r, s \in 1..Len(network.roads) :
          network.roads[r].id = network.roads[s].id => r = s

IdsAssigned ==
    /\ last'.op = "add_intersection"
          => /\ last'.result
             /\ last'.index = Len(network.intersections)
             /\ Len(network'.intersections) = Len(network.intersections) + 1
             /\ network'.intersections[Len(network'.intersections)].id = last'.index
    /\ last'.op = "add_road" /\ last'.result
          => /\ last'.committed = Len(network.roads)
             /\ Len(network'.roads) = Len(network.roads) + 1
             /\ network'.roads[Len(network'.roads)].id = last'.committed
    /\ last'.op = "add_road" /\ ~last'.result
          => /\ Len(network'.roads) = Len(network.roads)
             /\ network'.road_counter = network.road_counter

C26_IdsSequential == [](IdsSequential) /\ [][IdsAssigned]_vars

C26_Witness ==
    /\ last.op = "add_road"
    /\ last.result
    /\ last.committed = 1
    /\ Len(network.roads) = 2
    /\ Len(network.intersections) = 3

(***************************************************************************)
(* C27: for every network and every pair (start, end) with end reachable   *)
(* from start, find_shortest_path returns a sequence that begins at start, *)
(* ends at end, has a directed road between every two consecutive nodes,   *)
(* and whose edge count equals the minimum hop count from start to end.    *)
(***************************************************************************)
HasRoad(net, from, to) ==
    \E r \in 1..Len(net.roads) :
        net.roads[r].from_intersection = from /\ net.roads[r].to_intersection = to

\* The least number of roads from the intersections reached to end.
RECURSIVE Hops(_, _, _, _)
Hops(net, reached, end, n) ==
    IF end \in reached THEN n
    ELSE Hops(net,
              reached \cup {b \in IdsOf(net) : \E a \in reached : HasRoad(net, a, b)},
              end, n + 1)

PathFound == last.op = "find_shortest_path"

C27_ShortestPath ==
    PathFound /\ Reachable(network, last.index, last.destination) =>
        /\ last.path # <<>>
        /\ last.path[1] = last.index
        /\ last.path[Len(last.path)] = last.destination
        /\ \A p \in 1..Len(last.path) - 1 :
              HasRoad(network, last.path[p], last.path[p + 1])
        /\ Len(last.path) - 1 = Hops(network, {last.index}, last.destination, 0)

\* 0 -> 2 -> 3 is returned although 0 -> 1 was added first and leads to 3
\* over 1 -> 2 -> 3.
C27_Witness ==
    /\ PathFound
    /\ last.path = <<0, 2, 3>>
    /\ get_road(network, network.adj_list[1][1]).to_intersection = 1
    /\ HasRoad(network, 1, 2)

(***************************************************************************)
(* C28: find_shortest_path returns the empty sequence exactly when end is  *)
(* not reachable from start over directed roads (a road in the reverse     *)
(* direction only does not count), and returns [start] when start == end   *)
(* even if start has no self-loop.                                         *)
(***************************************************************************)
C28_EmptyIffUnreachable ==
    PathFound =>
        /\ last.path = <<>> <=> ~Reachable(network, last.index, last.destination)
        /\ last.index = last.destination => last.path = <<last.index>>

C28_Witness ==
    /\ PathFound
    /\ last.path = <<>>
    /\ HasRoad(network, last.destination, last.index)
    /\ ~HasRoad(network, last.index, last.index)
    /\ Len(network.adj_list[last.index + 1]) > 0

(***************************************************************************)
(* C29: find_shortest_path is deterministic: for a fixed network with      *)
(* fixed road insertion order, every call with the same (start, end)       *)
(* returns the same sequence, and among equal-hop paths it is the one      *)
(* discovered first when each node's outgoing roads are scanned in         *)
(* insertion order.  The sequence returned is the one this formula fixes   *)
(* from the network and (start, end) alone: of the walks with the least    *)
(* number of roads, the one whose roads' positions in the adjacency lists  *)
(* come first.                                                             *)
(***************************************************************************)
\* The intersections passed when, from node, the roads at the positions ps of
\* the adjacency lists are taken one after the other; None ends a walk that
\* asks for a position a list does not have.
RECURSIVE Walk(_, _, _)
Walk(net, node, ps) ==
    IF ps = <<>> THEN <<node>>
    ELSE IF Head(ps) > Len(net.adj_list[node + 1]) THEN <<None>>
    ELSE <<node>> \o Walk(net,
                          net.roads[net.adj_list[node + 1][Head(ps)] + 1].to_intersection,
                          Tail(ps))

ShortestWalks(net, start, end) ==
    {ps \in [1..Hops(net, {start}, end, 0) -> 1..MaxPathRoads] :
        Walk(net, start, ps)[Len(Walk(net, start, ps))] = end}

Precedes(ps, qs) ==
    \/ ps = qs
    \/ \E i \in 1..Len(ps) : ps[i] < qs[i] /\ \A j \in 1..i - 1 : ps[j] = qs[j]

FirstDiscovered(net, start, end) ==
    CHOOSE ps \in ShortestWalks(net, start, end) :
        \A qs \in ShortestWalks(net, start, end) : Precedes(ps, qs)

C29_FirstDiscovered ==
    PathFound /\ Reachable(network, last.index, last.destination) =>
        last.path = Walk(network, last.index,
                         FirstDiscovered(network, last.index, last.destination))

\* Two routes of two roads from 0 to 3; the road 0 -> 2 is older than 0 -> 1,
\* the road 1 -> 3 older than 2 -> 3.
C29_Witness ==
    /\ PathFound
    /\ last.path = <<0, 2, 3>>
    /\ HasRoad(network, 0, 1)
    /\ HasRoad(network, 1, 3)
    /\ network.roads[1].from_intersection = 1
    /\ get_road(network, network.adj_list[1][1]).to_intersection = 2

(***************************************************************************)
(* C30: after any sequence of record_pass and update calls, a pass whose   *)
(* timestamp is older than window_seconds relative to the monitor's        *)
(* current time is not counted by any rate query: each queue holds only    *)
(* timestamps >= clock - window_seconds once update has run, and a query   *)
(* returns, for each direction, the number of passes recorded that are not *)
(* older than that.                                                        *)
(***************************************************************************)
\* The passes recorded at an intersection that are not older than the window.
Recent(intersection_id) ==
    {p \in 1..Len(tick.log) :
        /\ tick.log[p].intersection_id = intersection_id
        /\ tick.log[p].timestamp
              >= fleet.monitor[1].time - fleet.monitor[1].window_seconds}

C30_OldPassesNotCounted ==
    /\ \A k \in 1..Len(fleet.monitor[1].events) :
          \A p \in 1..Len(fleet.monitor[1].events[k].dq) :
              fleet.monitor[1].events[k].dq[p]
                  >= fleet.monitor[1].time - fleet.monitor[1].window_seconds
    /\ last.op = "get_rates" =>
          /\ last.committed = Cardinality(Recent(last.index))
          /\ \A r \in last.entered :
                r.rate = Cardinality({p \in Recent(last.index) :
                                         /\ tick.log[p].from_id = r.from_id
                                         /\ tick.log[p].to_id = r.to_id})
          /\ \A p \in Recent(last.index) :
                \E r \in last.entered :
                    r.from_id = tick.log[p].from_id /\ r.to_id = tick.log[p].to_id

\* A pass recorded at time 0 is no longer counted, a later one is.
C30_Witness ==
    /\ last.op = "get_rates"
    /\ last.index = 1
    /\ Len(tick.log) = 2
    /\ tick.log[1] = [intersection_id |-> 1, from_id |-> 0, to_id |-> 2, timestamp |-> 0]
    /\ tick.log[2].intersection_id = 1
    /\ tick.log[2].to_id = None
    /\ fleet.monitor[1].time > fleet.monitor[1].window_seconds
    /\ [from_id |-> 0, to_id |-> 2, rate |-> 0] \in last.entered
    /\ last.committed = 1

(***************************************************************************)
(* C31: get_rates_for_intersection(i) returns for each key (from, to)      *)
(* exactly the number of record_pass(i, from, to) calls whose timestamp is *)
(* still inside the window, no in-window pass is dropped by pruning,       *)
(* get_total_rate_for_intersection(i) is the sum over the keys of i, and   *)
(* record_pass changes only the queue of its own (intersection, from, to)  *)
(* key.                                                                    *)
(***************************************************************************)
RECURSIVE SumRates(_)
SumRates(rates) ==
    IF rates = {} THEN 0
    ELSE LET r == CHOOSE x \in rates : TRUE
         IN  r.rate + SumRates(rates \ {r})

\* The rate returned for a key; a key the dictionary does not have counts 0.
RateOf(rates, from_id, to_id) ==
    SumRates({r \in rates : r.from_id = from_id /\ r.to_id = to_id})

RatesExact ==
    last.op = "get_rates" =>
        /\ \A key \in Passes :
              key[1] = last.index =>
                  RateOf(last.entered, key[2], key[3])
                      = Cardinality({p \in Recent(last.index) :
                                        /\ tick.log[p].from_id = key[2]
                                        /\ tick.log[p].to_id = key[3]})
        /\ \A r, s \in last.entered :
              r.from_id = s.from_id /\ r.to_id = s.to_id => r = s
        /\ last.committed = SumRates(last.entered)

OwnKey(e, pass) ==
    /\ e.intersection_id = pass.intersection_id
    /\ e.from_id = pass.from_id
    /\ e.to_id = pass.to_id

RecordedOnOwnQueue ==
    last'.op = "record_pass" =>
        LET m == fleet.monitor[1]
            n == fleet'.monitor[1]
            pass == tick'.log[Len(tick'.log)]
        IN  /\ n.time = m.time
            /\ n.window_seconds = m.window_seconds
            /\ pass.timestamp = m.time
            /\ \A k \in 1..Len(m.events) :
                  /\ k <= Len(n.events)
                  /\ ~OwnKey(m.events[k], pass) => n.events[k] = m.events[k]
                  /\ OwnKey(m.events[k], pass) =>
                        n.events[k] = [m.events[k] EXCEPT !.dq = Append(@, m.time)]
            /\ \A k \in Len(m.events) + 1..Len(n.events) :
                  /\ k = Len(m.events) + 1
                  /\ ~HasQueue(m, pass.intersection_id, pass.from_id, pass.to_id)
                  /\ OwnKey(n.events[k], pass)
                  /\ n.events[k].dq = <<m.time>>
            /\ HasQueue(n, pass.intersection_id, pass.from_id, pass.to_id)

C31_RatesExact == [](RatesExact) /\ [][RecordedOnOwnQueue]_vars

\* Three passes at intersection 1, two of them from 0 to 2; the older of the
\* two has left the window.
C31_Witness ==
    /\ last.op = "get_rates"
    /\ last.index = 1
    /\ Len(tick.log) = 3
    /\ last.entered = {[from_id |-> 0, to_id |-> 2, rate |-> 1],
                       [from_id |-> 0, to_id |-> None, rate |-> 1]}
    /\ last.committed = 2
    /\ Cardinality({p \in 1..3 : tick.log[p].to_id = 2}) = 2

(***************************************************************************)
(* C33: while a vehicle stays on the same road, update(dt) with dt >= 0    *)
(* never decreases its progress_on_road: vehicles do not move backwards,   *)
(* whatever the position of a leader and whatever the signal state.        *)
(***************************************************************************)
SameRoad(v, w) ==
    /\ w.current_road # None
    /\ w.current_road = v.current_road
    /\ w.current_path_index = v.current_path_index
    /\ w.path = v.path

C33_NeverBackwards ==
    (Updated /\ last.delta_time >= 0 /\ SameRoad(last.before, After)) =>
        After.progress_on_road >= last.before.progress_on_road

(***************************************************************************)
(* C32: a Driving vehicle held at a signalled intersection is not starved: *)
(* if the signal is green for its approach direction again and again       *)
(* (signal and fleet both updated every tick with the same dt > 0) and no  *)
(* leader blocks it, the vehicle eventually enters the intersection;       *)
(* progress gained during a green phase is not taken back when the signal  *)
(* turns red again.                                                        *)
(***************************************************************************)
GreenForApproach ==
    is_green_for_direction(signals[2].traffic_light_controller[1], 0)

\* Intersection 1 is the vehicle's destination: the frame that takes the
\* vehicle into it removes the vehicle from the fleet.
EnteredIntersection == last.op = "fleet_update" /\ 0 \in tick.removed

C32_NotStarved ==
    ([]<>GreenForApproach) => <>EnteredIntersection

(***************************************************************************)
(* C34: vehicles on the same road do not overtake one another: if vehicle  *)
(* v is strictly behind vehicle w on a road before a fleet tick and both   *)
(* are still on that road after it, then v is not ahead of w after the     *)
(* tick, for either processing order of v and w.                           *)
(***************************************************************************)
OnSameRoad(v, w) ==
    /\ v.id # w.id
    /\ v.current_road # None
    /\ v.current_road = w.current_road

NoOvertaking ==
    tick'.op = "update" /\ tick'.clock # tick.clock =>
        \A i, j \in 1..Len(vehicles) :
            \A k, l \in 1..Len(vehicles') :
                (/\ OnSameRoad(vehicles[i], vehicles[j])
                 /\ vehicles[i].progress_on_road < vehicles[j].progress_on_road
                 /\ vehicles'[k].id = vehicles[i].id
                 /\ vehicles'[l].id = vehicles[j].id
                 /\ OnSameRoad(vehicles'[k], vehicles'[l])
                 /\ vehicles'[k].current_road = vehicles[i].current_road)
                    => vehicles'[k].progress_on_road <= vehicles'[l].progress_on_road

C34_NoOvertaking == [][NoOvertaking]_vars

(***************************************************************************)
(* C35: whenever a vehicle is Driving, after any sequence of               *)
(* set_destination and update calls: current_path_index < len(path) - 1,   *)
(* current_intersection = path[current_path_index], and current_road is    *)
(* the network road from path[current_path_index] to                       *)
(* path[current_path_index + 1] (never None).                              *)
(***************************************************************************)
DrivingOnRoute(v) ==
    /\ 0 <= v.current_path_index
    /\ v.current_path_index < Len(v.path) - 1
    /\ v.current_intersection = v.path[v.current_path_index + 1]
    /\ v.current_road # None
    /\ \E r \in 1..Len(network.roads) :
          /\ network.roads[r].id = v.current_road
          /\ network.roads[r].from_intersection = v.path[v.current_path_index + 1]
          /\ network.roads[r].to_intersection = v.path[v.current_path_index + 2]

C35_DrivingOnRoute ==
    \A i \in 1..Len(vehicles) :
        vehicles[i].state = "driving" => DrivingOnRoute(vehicles[i])

\* Driving on the second road of a route, after an update moved the vehicle
\* over the first node.
C35_Witness ==
    /\ Updated
    /\ After.state = "driving"
    /\ After.current_path_index = 1
    /\ Len(After.path) = 3
    /\ last.before.current_path_index = 0
    /\ last.before.current_road # After.current_road

(***************************************************************************)
(* C36: whenever a vehicle is Arrived, reached by update or by             *)
(* set_destination from any prior state (Idle, Driving mid-road, Arrived): *)
(* current_road is None, progress_on_road is 0 and current_intersection    *)
(* equals destination, so has_reached_destination() is true.               *)
(***************************************************************************)
C36_ArrivedAtRest ==
    \A i \in 1..Len(vehicles) :
        vehicles[i].state = "arrived" =>
            /\ vehicles[i].current_road = None
            /\ vehicles[i].progress_on_road = 0
            /\ vehicles[i].current_intersection = vehicles[i].destination
            /\ has_reached_destination(vehicles[i])

(***************************************************************************)
(* C37: in every reachable state of a controller, 0 <= current_phase_index *)
(* < number of phases; and right after each update(dt) with dt >= 0        *)
(* returns, time_in_phase is 0 or strictly less than the current phase's   *)
(* duration, one update call advancing at most one phase however large dt  *)
(* is.                                                                     *)
(***************************************************************************)
PhaseIndexInRange ==
    \A k \in Controlled :
        /\ 0 <= signals[k].traffic_light_controller[1].current_phase_index
        /\ signals[k].traffic_light_controller[1].current_phase_index
              < Len(signals[k].traffic_light_controller[1].phases)

ElapsedBelowDuration ==
    last'.op = "signals" /\ last'.delta_time >= 0 =>
        \A k \in Controlled :
            LET c == signals[k].traffic_light_controller[1]
                d == signals'[k].traffic_light_controller[1]
            IN  /\ \/ d.time_in_phase = 0
                   \/ d.time_in_phase < d.phases[d.current_phase_index + 1].duration
                /\ d.current_phase_index
                      \in {c.current_phase_index,
                           (c.current_phase_index + 1) % Len(c.phases)}

C37_PhaseIndexAndElapsed == [](PhaseIndexInRange) /\ [][ElapsedBelowDuration]_vars

\* update(4) on the phase of 2 s, followed by a phase of at most 1 s: the
\* controller is in the next phase, at time 0.
C37_Witness ==
    /\ last.op = "signals"
    /\ last.delta_time = 4
    /\ signals[3].traffic_light_controller[1].current_phase_index = 1
    /\ signals[3].traffic_light_controller[1].time_in_phase = 0
    /\ signals[3].traffic_light_controller[1].phases[1].duration = 2
    /\ signals[3].traffic_light_controller[1].phases[2].duration <= 1

(***************************************************************************)
(* SpecSpawner: one running spawner at intersection 0, built with rate 0   *)
(* or more, whose rate the visualizer changes by -1 or +1 between its      *)
(* update calls with a positive delta_time.  tick.supplied[1] is 1 while   *)
(* a raise of the rate from 0 is in force, that is from the raise until    *)
(* the next emission or the return of the rate to 0, and tick.supplied[2]  *)
(* is the delta_time the update calls supplied since that raise.  The      *)
(* accumulator time_since_last_spawn is followed up to MaxSpawnTime.       *)
(***************************************************************************)
MaxSpawnTime == 8

RateDeltas == {0 - 1, 1}

InitSpawner ==
    /\ network = ExampleNetwork
    /\ signals = NoSignals
    /\ vehicles = <<>>
    /\ last = NoOp
    /\ fleet \in {add_spawner(VehicleFleet, 0, spawn_rate, 180, 185, draw) :
                     spawn_rate \in 0..MaxRate, draw \in Intervals}
    /\ tick = NoTick

\* What a rate change from `before` to `after` makes of the raise in force.
RaiseAfterAdjust(supplied, before, after) ==
    IF after <= 0 THEN <<0, 0>>
    ELSE IF before <= 0 THEN <<1, 0>>
    ELSE supplied

SpawnerAdjustRate(delta) ==
    /\ fleet.spawners[1].spawn_rate + delta <= MaxRate
    /\ fleet' = adjust_selected_spawner_rate(fleet, 0, delta)
    /\ last' = [NoOp EXCEPT !.op = "adjust", !.index = delta,
                            !.tentative = fleet.spawners[1].spawn_rate,
                            !.committed = fleet'.spawners[1].spawn_rate]
    /\ tick' = [tick EXCEPT !.op = "adjust", !.delta_time = 0, !.log = <<>>,
                            !.spawned = <<>>,
                            !.supplied =
                                RaiseAfterAdjust(@, fleet.spawners[1].spawn_rate,
                                                 fleet'.spawners[1].spawn_rate)]
    /\ UNCHANGED <<network, signals, vehicles>>

SpawnerUpdated(s, delta_time) ==
    /\ fleet' = [fleet EXCEPT !.spawners[1] = s.spawner]
    /\ last' = [NoOp EXCEPT !.op = "spawner_update", !.delta_time = delta_time,
                            !.result = (s.vehicle # <<>>)]
    /\ tick' = [tick EXCEPT !.op = "spawner_update", !.delta_time = delta_time,
                            !.log = << [spawner |-> 1, delta_time |-> delta_time,
                                        spawn_rate |-> fleet.spawners[1].spawn_rate,
                                        emitted |-> s.vehicle # <<>>,
                                        interval |-> s.interval] >>,
                            !.spawned = s.vehicle,
                            !.supplied = IF s.vehicle # <<>> THEN <<0, 0>>
                                         ELSE IF @[1] = 1 THEN <<1, @[2] + delta_time>>
                                         ELSE @]
    /\ UNCHANGED <<network, signals, vehicles>>

SpawnerUpdate(delta_time, draw, speed) ==
    /\ fleet.spawners[1].time_since_last_spawn + delta_time <= MaxSpawnTime
    /\ SpawnerUpdated(spawner_update(fleet.spawners[1], delta_time, draw, speed),
                      delta_time)

SpawnerTick ==
    \E delta_time \in PositiveDeltaTimes, draw \in Intervals, speed \in Speeds :
        SpawnerUpdate(delta_time, draw, speed)

NextSpawner ==
    \/ \E delta \in RateDeltas : SpawnerAdjustRate(delta)
    \/ SpawnerTick

SpecSpawner == InitSpawner /\ [][NextSpawner]_vars

(***************************************************************************)
(* C38: a spawn-rate change takes effect on a running spawner: the         *)
(* adjusted rate is max(0.0, rate + delta), and after the rate of a        *)
(* spawner that had rate 0 is raised to a positive value, repeated         *)
(* update(dt) with dt > 0 eventually emits a vehicle.  No interval drawn   *)
(* at a positive rate is longer than LongestInterval here, so the vehicle  *)
(* is emitted before the update calls after the raise have supplied        *)
(* LongestInterval seconds without an emission: a spawner on which the     *)
(* raise took effect is never overdue, and a spawner that is overdue with  *)
(* next_spawn_interval = inf emits in no later update either, because an   *)
(* update changes the interval only when it emits.                         *)
(***************************************************************************)
LongestInterval == CHOOSE i \in Intervals : \A j \in Intervals : j <= i

RateClamped ==
    last'.op = "adjust" =>
        fleet'.spawners[1].spawn_rate
            = Max(0, fleet.spawners[1].spawn_rate + last'.index)

\* A raise from 0 is in force and the updates after it have supplied the
\* longest interval without an emission.
Overdue ==
    /\ tick.supplied[1] = 1
    /\ tick.supplied[2] >= LongestInterval

C38_RaisedRateSpawns ==
    /\ [][RateClamped]_vars
    /\ [](~Overdue)

(***************************************************************************)
(* SpecIdle: three vehicles at intersection 0 or 2 in the fleet of         *)
(* SpecLane (controllers appended by the caller, no spawners).  An Idle    *)
(* vehicle is given any destination: none is reachable from intersection   *)
(* 2, and its own intersection makes it Arrived at once.  add_vehicle is   *)
(* called once: the fleet's id counter is 0, so the vehicle it appends is  *)
(* a second vehicle 0, and it gets no controller.  fleet.update(dt)        *)
(* advances and removes.  tick.clock counts the ticks.                     *)
(***************************************************************************)
MaxIdleTicks == 2

IdleStarts == {0, 2}

InitIdle ==
    /\ network = ExampleNetwork
    /\ signals = NoSignals
    /\ vehicles \in {[k \in 1..3 |-> Vehicle(k - 1, at[k], 180)] :
                        at \in [1..3 -> IdleStarts]}
    /\ last = NoOp
    /\ fleet = LaneFleet
    /\ tick = NoTick

\* set_destination of the controller at index i, whose vehicle is vehicles[i].
IdleSetDestination(i, destination) ==
    /\ i <= Len(fleet.controllers)
    /\ IndexOfId(vehicles, fleet.controllers[i].vehicle) = i
    /\ vehicles[i].state = "idle"
    /\ SetDestination(i, destination)

IdleAddVehicle(at, r) ==
    /\ fleet.vehicle_id_counter = VehicleFleet.vehicle_id_counter
    /\ AddVehicle(at, 180, r)

IdleTick(delta_time, levels) ==
    /\ tick.clock < MaxIdleTicks
    /\ LaneUpdated(fleet_update(network, signals, fleet, vehicles, delta_time,
                                <<>>, <<>>, <<>>, levels),
                   delta_time)

NextIdle ==
    \/ \E i \in 1..Len(vehicles), d \in IntersectionIds(network) :
          IdleSetDestination(i, d)
    \/ \E at \in IdleStarts, r \in Choices : IdleAddVehicle(at, r)
    \/ \E dt \in PositiveDeltaTimes, levels \in Levels(vehicles, Len(fleet.controllers)) :
          IdleTick(dt, levels)

SpecIdle == InitIdle /\ [][NextIdle]_vars

(***************************************************************************)
(* C39: a vehicle that got no destination or no route stays Idle in the    *)
(* fleet: every later fleet.update leaves all of its fields unchanged and  *)
(* never removes it, so fleet.vehicles keeps it and num_vehicles never     *)
(* drops below the number of such vehicles.                                *)
(***************************************************************************)
WithoutRoute(vs) ==
    {k \in 1..Len(vs) : vs[k].state = "idle" /\ vs[k].destination = None}

\* How many vehicles of vs without a route are equal to x in every field.
CountWithoutRoute(vs, x) == Cardinality({k \in WithoutRoute(vs) : vs[k] = x})

IdleKept ==
    last'.op = "fleet_update" =>
        /\ \A i \in WithoutRoute(vehicles) :
              CountWithoutRoute(vehicles', vehicles[i])
                  >= CountWithoutRoute(vehicles, vehicles[i])
        /\ Len(vehicles') >= Cardinality(WithoutRoute(vehicles))

C39_IdleKept == [][IdleKept]_vars

\* A tick removed the caller's vehicle 0, and the fleet holds an Idle vehicle
\* with a controller, now first in the list, and the one that add_vehicle
\* appended, which has no controller.
C39_Witness ==
    /\ last.op = "fleet_update"
    /\ 0 \in tick.removed
    /\ Len(vehicles) >= 2
    /\ 1 \in WithoutRoute(vehicles)
    /\ fleet.controllers[1].vehicle = vehicles[1].id
    /\ \E k \in WithoutRoute(vehicles) :
          k > Len(fleet.controllers) /\ vehicles[k].id = 0

(***************************************************************************)
(* C11: after every fleet.update(dt) returns, no vehicle in fleet.vehicles *)
(* is Arrived: a vehicle that reaches its final route node during a tick   *)
(* is removed, together with its controller, in that same tick.            *)
(***************************************************************************)
ArrivedRemoved ==
    last'.op = "fleet_update" =>
        /\ \A i \in 1..Len(vehicles') : vehicles'[i].state # "arrived"
        /\ Len(fleet'.controllers) <= Len(vehicles')
        /\ \A k \in 1..Len(fleet'.controllers) :
              vehicles'[k].id = fleet'.controllers[k].vehicle
        /\ Len(vehicles) - Len(vehicles')
              = Len(fleet.controllers) - Len(fleet'.controllers)
        /\ \A id \in tick'.removed :
              \A k \in 1..Len(fleet'.controllers) :
                  fleet'.controllers[k].vehicle # id

C11_ArrivedRemoved == [][ArrivedRemoved]_vars

\* A tick removed two vehicles, one of which was Driving when its controller
\* was called in the tick.
C11_Witness ==
    /\ last.op = "fleet_update"
    /\ Cardinality(tick.removed) = 2
    /\ \E k \in 1..Len(tick.advanced) :
          /\ tick.advanced[k].id \in tick.removed
          /\ \E j \in 1..Len(tick.advanced[k].seen) :
                /\ tick.advanced[k].seen[j].id = tick.advanced[k].id
                /\ tick.advanced[k].seen[j].state = "driving"

(***************************************************************************)
(* C15: within one tick the controllers share the live vehicle list, not a *)
(* snapshot: the controller at fleet index j sees the already-updated      *)
(* progress and road of the vehicles at indices < j and the not-yet-       *)
(* updated values of the vehicles at indices > j.                          *)
(***************************************************************************)
SeesLiveList ==
    last'.op = "fleet_update" =>
        \A k \in 1..Len(tick'.advanced) :
            /\ Len(tick'.advanced[k].seen) = Len(vehicles)
            /\ \A j \in 1..Len(vehicles) :
                  IF j < k
                  THEN \A i \in 1..Len(vehicles') :
                           vehicles'[i].id = vehicles[j].id
                               => tick'.advanced[k].seen[j] = vehicles'[i]
                  ELSE tick'.advanced[k].seen[j] = vehicles[j]

C15_SeesLiveList == [][SeesLiveList]_vars

\* The third controller of a tick saw the first vehicle where the tick moved
\* it to, and held its own vehicle behind it.
C15_Witness ==
    /\ last.op = "fleet_update"
    /\ Len(tick.advanced) = 3
    /\ Len(vehicles) = 3
    /\ tick.advanced[1].seen[1].state = "driving"
    /\ tick.advanced[3].seen[1] = vehicles[1]
    /\ tick.advanced[3].seen[1].progress_on_road
          # tick.advanced[1].seen[1].progress_on_road
    /\ OnSameRoad(vehicles[3], vehicles[1])
    /\ vehicles[3].progress_on_road = vehicles[1].progress_on_road - min_safe_distance

=============================================================================
